---- MODULE Spec2Model ----
(***************************************************************************)
(* Model of the client-side DNS orchestrator (DefaultServer) of            *)
(* client/internal/dns/server.go.                                          *)
(*                                                                         *)
(* The receiver of every method is the record s: one field per field of    *)
(* the DefaultServer struct, plus the state of the collaborators the       *)
(* methods act upon (the listener, the host's DNS settings, the shutdown   *)
(* checkpoint, the handlers' stop flags and the closures made by           *)
(* upstreamCallbacks).  Every method is an operator from a server record   *)
(* to the server record it leaves behind; the actions apply them.          *)
(***************************************************************************)
EXTENDS Integers, Sequences, FiniteSets, TLC

VARIABLES s, pending, stopPc, rt, tier, run

vars == <<s, pending, stopPc, rt, tier, run>>

(***************************************************************************)
(* Bounds of the model.                                                    *)
(***************************************************************************)
\* serials offered to UpdateDNSServer are 0..MaxSerial
MaxSerial == 2
\* number of configurations applied in one run (each creates new handlers)
MaxApplies == 2
\* cap of one refcount of extraDomains
MaxRefs == 2
\* length N of a RegisterHandler / DeregisterHandler round trip
MaxRoundTrip == 2
\* number of deactivate callbacks in one run
MaxDeactivations == 2
\* groups offered for one zone to the priority assignment, beyond the tier gap
TierSlack == 2
\* calls of UpdateDNSServer in progress at one time
MaxCallers == 2
\* the call of newUpstreamResolver that fails is among the first so many of a call
MaxResolverErr == 1

(***************************************************************************)
(* Priority tiers of the handler chain.                                    *)
(***************************************************************************)
PriorityLocal == 100
PriorityUpstream == 50
PriorityDefault == 1
PriorityFallback == 0 - 100

RootZone == "."
defaultPort == 53
\* the virtual resolver's own address, s.service.RuntimeIP()
ServerIP == "vip"
\* the zero netip.Addr, as HostDNSConfig.ServerIP.String() renders it
ZeroAddr == "invalid IP"

(***************************************************************************)
(* Sequence helpers.                                                       *)
(***************************************************************************)
Range(q) == {q[i] : i \in 1..Len(q)}

\* the elements occurring an odd number of times in q
OddSet(q) == {x \in Range(q) : Cardinality({i \in 1..Len(q) : q[i] = x}) % 2 = 1}

\* the empty map and map update, for Go maps whose key set changes
EmptyMap == [k \in {} |-> 0]
MapPut(m, k, v) == [x \in (DOMAIN m) \cup {k} |-> IF x = k THEN v ELSE m[x]]
MapDelete(m, k) == [x \in (DOMAIN m) \ {k} |-> m[x]]

(***************************************************************************)
(* Domain names.  Zones are "a.", "b." and the root zone; "A" is the name  *)
(* of zone "a." before normalisation (upper case, no trailing dot) and ""  *)
(* is the empty name.                                                      *)
(***************************************************************************)
\* strings.ToLower(dns.Fqdn(d))
Fqdn(d) == CASE d = "A" -> "a."
             [] d = "" -> "."
             [] OTHER -> d

\* toZone: NormalizeZone(Fqdn(ToLower(PunycodeString(d))))
toZone(d) == Fqdn(d)

(***************************************************************************)
(* Handlers.  A handler is one object: the local resolver, an upstream     *)
(* resolver created by an update (gen numbers the update that created it,  *)
(* domain and priority the entry it was created for; Domains and Primary   *)
(* are the nsGroup its callbacks close over), a resolver for the host's    *)
(* DNS servers, a resolver for the original nameservers, or a handler an   *)
(* external caller hands to RegisterHandler.                               *)
(***************************************************************************)
Handler(kind, domain, servers, gen, priority, nsDomains, primary) ==
    [kind |-> kind, domain |-> domain, upstreamServers |-> servers, gen |-> gen,
     priority |-> priority, Domains |-> nsDomains, Primary |-> primary]

localResolver == Handler("local", "", <<>>, 0, 0, <<>>, FALSE)
ExtraHandler == Handler("extra", "", <<>>, 0, 0, <<>>, FALSE)

\* handlerWithStop.ID(): one ID for the local resolver; for an upstream
\* resolver a digest of its zone and its sorted servers
ID(h) == IF h.kind = "local"
         THEN <<"local-resolver", "", {}>>
         ELSE <<"upstream", h.domain, Range(h.upstreamServers)>>

\* handlerWrapper
handlerWrapper(domain, handler, priority) ==
    [domain |-> domain, handler |-> handler, priority |-> priority]

(***************************************************************************)
(* The handler chain: at most one entry for a (pattern, priority).         *)
(***************************************************************************)
AddHandler(chain, pattern, handler, priority) ==
    {e \in chain : ~(e.domain = Fqdn(pattern) /\ e.priority = priority)}
        \cup {handlerWrapper(Fqdn(pattern), handler, priority)}

RemoveHandler(chain, pattern, priority) ==
    {e \in chain : ~(e.domain = Fqdn(pattern) /\ e.priority = priority)}

RECURSIVE registerHandlerFrom(_, _, _, _, _)
registerHandlerFrom(chain, domains, i, handler, priority) ==
    IF i > Len(domains) THEN chain
    ELSE registerHandlerFrom(
            IF domains[i] = "" THEN chain
            ELSE AddHandler(chain, domains[i], handler, priority),
            domains, i + 1, handler, priority)

registerHandler(st, domains, handler, priority) ==
    [st EXCEPT !.handlerChain = registerHandlerFrom(@, domains, 1, handler, priority)]

RECURSIVE deregisterHandlerFrom(_, _, _, _)
deregisterHandlerFrom(chain, domains, i, priority) ==
    IF i > Len(domains) THEN chain
    ELSE deregisterHandlerFrom(
            IF domains[i] = "" THEN chain
            ELSE RemoveHandler(chain, domains[i], priority),
            domains, i + 1, priority)

deregisterHandler(st, domains, priority) ==
    [st EXCEPT !.handlerChain = deregisterHandlerFrom(@, domains, 1, priority)]

(***************************************************************************)
(* Collaborators: the host manager, the listener, the state manager, the   *)
(* hosts-DNS holder.                                                       *)
(***************************************************************************)
isUsingNoopHostManager(st) == st.hostManager = "noop"

\* the noop configurator accepts every port
supportCustomPort(st) == IF st.hostManager = "noop" THEN TRUE ELSE st.supportCustomPort

\* hostManagerWithOriginalNS.getOriginalNameservers(); the noop one has none
getOriginalNameservers(st) ==
    IF st.hostManager = "noop" THEN <<>> ELSE st.originalNameservers

\* hostManager.applyDNSConfig(config, stateManager)
applyDNSConfig(st, config) ==
    LET counted == [st EXCEPT !.op.applies = @ + 1]
    IN IF st.hostManager = "noop" THEN counted
       ELSE [counted EXCEPT !.hostDNS = <<config>>,
                            !.shutdownState = IF @ = "deleted" THEN @ ELSE "set"]

\* hostManager.restoreHostDNS(), ok tells whether the host let it succeed
restoreHostDNS(st, ok) ==
    IF ok THEN [st EXCEPT !.hostDNS = <<>>, !.op.restored = TRUE]
    ELSE [st EXCEPT !.op.restoreFailed = TRUE]

\* stateManager.DeleteState(&ShutdownState{})
DeleteState(st) == [st EXCEPT !.shutdownState = "deleted"]

\* a collaborator's call returned the error kind to the method in progress
Failed(st, kind) == [st EXCEPT !.op.errors = @ \cup {kind}]

\* s.service.Listen(): the listener runs, or the call returns an error
Listen(st) ==
    IF "listen" \in st.runtime.faults
    THEN [st |-> Failed(st, "listen"), err |-> TRUE]
    ELSE [st |-> [st EXCEPT !.listening = TRUE], err |-> FALSE]

ServiceStop(st) == [st EXCEPT !.listening = FALSE]

\* s.service.RuntimeIP(): the resolver's address, or the zero netip.Addr,
\* which is not valid
RuntimeIP(st) == IF "runtimeIP" \in st.runtime.faults THEN ZeroAddr ELSE ServerIP

\* netip.ParseAddr(a).Is6()
Is6(address) == address \in {"fd00::1"}

\* formatAddr: host:port, an IPv6 host in brackets
formatAddr(address, port) ==
    [host |-> address, port |-> port, bracket |-> Is6(address)]

getNSHostPort(ns) == formatAddr(ns.IP, ns.Port)

\* some enumeration of a set, for a map range whose outcome is the same in
\* every order
RECURSIVE SetToSeq(_)
SetToSeq(S) == IF S = {} THEN <<>>
               ELSE LET x == CHOOSE y \in S : TRUE IN <<x>> \o SetToSeq(S \ {x})

\* the orders in which a range over a Go map can yield the keys S
Orders(S) == {q \in [1..Cardinality(S) -> S] : Range(q) = S}

\* the keys S of a map as its range yields them, order being an enumeration
\* that has every key of S
InOrder(S, order) ==
    LET keys == CHOOSE T \in {S} : T \subseteq Range(order)
    IN SelectSeq(order, LAMBDA x : x \in keys)

(***************************************************************************)
(* What the Go runtime and the platform decide during one call of a        *)
(* method, st.runtime: the order of the range over domainMap               *)
(* (groupNSGroupsByDomain), over extraDomains (applyHostConfig) and over   *)
(* the host's DNS servers (addHostRootZone); which call of                 *)
(* newUpstreamResolver returns an error, the resolverErr-th one of the     *)
(* method call, none when resolverErr is 0; and which of the service's and *)
(* the platform's calls fail, faults: service.Listen() returns an error,   *)
(* service.RuntimeIP() is not valid, s.initialize() returns an error.      *)
(* resolvers counts the calls of newUpstreamResolver made so far.          *)
(***************************************************************************)
FaultKinds == {"listen", "runtimeIP", "initialize"}

NoRuntime == [domainMap |-> <<>>, extraDomains |-> <<>>, hostDNSServers |-> <<>>,
              resolverErr |-> 0, resolvers |-> 0, faults |-> {}]

\* the n-th call of newUpstreamResolver from now on returns an error
resolverFails(st, n) == st.runtime.resolvers + n = st.runtime.resolverErr

\* newUpstreamResolver: the server after the call, and whether it failed
newUpstreamResolver(st) ==
    [st |-> [st EXCEPT !.runtime.resolvers = @ + 1],
     err |-> resolverFails(st, 1)]

(***************************************************************************)
(* addHostRootZone, registerFallback, applyHostConfig.                     *)
(***************************************************************************)
addHostRootZone(st) ==
    LET hostDNSServers == st.hostsDNSHolder
        created == newUpstreamResolver(st)
        handler == Handler("hostroot", RootZone,
                           InOrder(hostDNSServers, st.runtime.hostDNSServers), st.gen,
                           PriorityDefault, <<>>, FALSE)
    IN IF hostDNSServers = {} THEN st
       ELSE IF created.err THEN created.st
       ELSE registerHandler(created.st, <<RootZone>>, handler, PriorityDefault)

RECURSIVE fallbackServers(_, _, _)
fallbackServers(originalNameservers, i, config) ==
    IF i > Len(originalNameservers) THEN <<>>
    ELSE (IF originalNameservers[i] = config.ServerIP THEN <<>>
          ELSE <<formatAddr(originalNameservers[i], defaultPort)>>)
         \o fallbackServers(originalNameservers, i + 1, config)

registerFallback(st, config) ==
    LET originalNameservers == getOriginalNameservers(st)
        created == newUpstreamResolver(st)
        handler == Handler("fallback", RootZone,
                           fallbackServers(originalNameservers, 1, config), st.gen,
                           PriorityFallback, <<>>, FALSE)
    IN IF Len(originalNameservers) = 0 THEN st
       ELSE IF created.err THEN created.st
       ELSE registerHandler(created.st, <<RootZone>>, handler, PriorityFallback)

DomainConfig(domain, matchOnly, disabled) ==
    [Domain |-> domain, MatchOnly |-> matchOnly, Disabled |-> disabled]

\* seeded fault: an extra domain is appended whether the config has it or not
RECURSIVE extraDomainConfigs_NoExistsCheck(_, _)
extraDomainConfigs_NoExistsCheck(extra, existingDomains) ==
    IF extra = <<>> THEN <<>>
    ELSE <<DomainConfig(Head(extra), TRUE, FALSE)>>
         \o extraDomainConfigs_NoExistsCheck(Tail(extra), existingDomains)

\* the extra domains missing from the config, appended as match-only entries
RECURSIVE extraDomainConfigs(_, _)
extraDomainConfigs(extra, existingDomains) ==
    IF extra = <<>> THEN <<>>
    ELSE (IF Head(extra) \in existingDomains THEN <<>>
          ELSE <<DomainConfig(Head(extra), TRUE, FALSE)>>)
         \o extraDomainConfigs(Tail(extra), existingDomains)

\* seeded fault: the config is applied although the context is cancelled
applyHostConfig_NoCtxCheck(st) ==
    LET existingDomains == {d.Domain : d \in Range(st.currentConfig.Domains)}
        extra == InOrder(DOMAIN st.extraDomains, st.runtime.extraDomains)
        config == [st.currentConfig EXCEPT !.Domains =
                     @ \o extraDomainConfigs(extra, existingDomains)]
    IN registerFallback(applyDNSConfig(st, config), config)

\* the range over extraDomains takes the order st.runtime.extraDomains
applyHostConfig(st) ==
    IF st.ctxErr THEN st
    ELSE LET existingDomains == {d.Domain : d \in Range(st.currentConfig.Domains)}
             extra == InOrder(DOMAIN st.extraDomains, st.runtime.extraDomains)
             config == [st.currentConfig EXCEPT !.Domains =
                          @ \o extraDomainConfigs(extra, existingDomains)]
         IN registerFallback(applyDNSConfig(st, config), config)

(***************************************************************************)
(* Building the handler set of an update.                                  *)
(***************************************************************************)
DefaultClass == "IN"
UDPNameServerType == "udp"

RECURSIVE localMuxUpdates(_, _)
localMuxUpdates(customZones, i) ==
    IF i > Len(customZones) THEN <<>>
    ELSE (IF Len(customZones[i].Records) = 0 THEN <<>>
          ELSE <<handlerWrapper(customZones[i].Domain, localResolver, PriorityLocal)>>)
         \o localMuxUpdates(customZones, i + 1)

RECURSIVE localRecordsOf(_, _)
localRecordsOf(customZones, i) ==
    IF i > Len(customZones) THEN <<>>
    ELSE SelectSeq(customZones[i].Records, LAMBDA r : r.Class = DefaultClass)
         \o localRecordsOf(customZones, i + 1)

\* returns the mux updates and the flattened records
buildLocalHandlerUpdate(customZones) ==
    [muxUpdates |-> localMuxUpdates(customZones, 1),
     localRecords |-> localRecordsOf(customZones, 1)]

\* the validation loop of buildUpstreamHandlerUpdate returns an error: some
\* group with name servers is not primary and has no domain, or has an
\* empty domain
invalidGroups(nameServerGroups) ==
    \E i \in 1..Len(nameServerGroups) :
        LET nsGroup == nameServerGroups[i]
        IN /\ Len(nsGroup.NameServers) # 0
           /\ \/ ~nsGroup.Primary /\ Len(nsGroup.Domains) = 0
              \/ \E j \in 1..Len(nsGroup.Domains) : nsGroup.Domains[j] = ""

\* the zones domainMap gets a key for: the root zone when a group is
\* primary, and every non-empty domain of a group that is not
zonesOf(nsGroups) ==
    {RootZone : i \in {i \in 1..Len(nsGroups) : nsGroups[i].Primary}}
    \cup UNION {{d \in Range(nsGroups[i].Domains) : d # ""} :
                  i \in {i \in 1..Len(nsGroups) : ~nsGroups[i].Primary}}

\* the steps of the two nested loops of groupNSGroupsByDomain, in order:
\* group i, and for a group that is not primary its domain j
loopSteps(nsGroups) ==
    LET lengths == {Len(nsGroups[i].Domains) : i \in 1..Len(nsGroups)} \cup {1}
        width == CHOOSE w \in lengths : \A l \in lengths : l <= w
    IN [k \in 1..(Len(nsGroups) * width) |->
           [i |-> ((k - 1) \div width) + 1, j |-> ((k - 1) % width) + 1]]

\* the step appends its group to domainMap[zone]
appendsTo(nsGroups, zone, step) ==
    LET group == nsGroups[step.i]
    IN IF group.Primary THEN step.j = 1 /\ zone = RootZone
       ELSE /\ step.j <= Len(group.Domains)
            /\ group.Domains[step.j] # ""
            /\ group.Domains[step.j] = zone

\* seeded fault: a group is put in front of those domainMap[zone] has
domainMapOf_Prepended(nsGroups, zone) ==
    LET steps == SelectSeq(loopSteps(nsGroups), LAMBDA step : appendsTo(nsGroups, zone, step))
    IN [k \in 1..Len(steps) |-> nsGroups[steps[Len(steps) + 1 - k].i]]

\* domainMap[zone] after the loops: the groups in input order
domainMapOf(nsGroups, zone) ==
    LET steps == SelectSeq(loopSteps(nsGroups), LAMBDA step : appendsTo(nsGroups, zone, step))
    IN [k \in 1..Len(steps) |-> nsGroups[steps[k].i]]

\* the groups of each match zone, in input order; the zones come in the
\* order the range over domainMap takes, order
groupNSGroupsByDomain(nsGroups, order) ==
    LET keys == InOrder(zonesOf(nsGroups), order)
    IN [k \in 1..Len(keys) |->
           [domain |-> keys[k], groups |-> domainMapOf(nsGroups, keys[k])]]

\* seeded fault: the bounds of the tiers are compared with < instead of <=
leaksPriority_Strict(domainGroup, basePriority, priority) ==
    \/ basePriority = PriorityUpstream /\ priority < PriorityDefault
    \/ basePriority = PriorityDefault /\ priority < PriorityFallback

leaksPriority(domainGroup, basePriority, priority) ==
    \/ basePriority = PriorityUpstream /\ priority <= PriorityDefault
    \/ basePriority = PriorityDefault /\ priority <= PriorityFallback

RECURSIVE udpServers(_, _)
udpServers(nameServers, i) ==
    IF i > Len(nameServers) THEN <<>>
    ELSE (IF nameServers[i].NSType # UDPNameServerType THEN <<>>
          ELSE <<getNSHostPort(nameServers[i])>>)
         \o udpServers(nameServers, i + 1)

\* the index (0-based, as in the code) at which the loop of
\* createHandlersForDomainGroup breaks, or the number of groups
breakIndex(domainGroup, basePriority) ==
    LET leaking == {i \in 0..(Len(domainGroup.groups) - 1) :
                       leaksPriority(domainGroup, basePriority, basePriority - i)}
    IN IF leaking = {} THEN Len(domainGroup.groups)
       ELSE CHOOSE i \in leaking : \A j \in leaking : i <= j

\* the loop of createHandlersForDomainGroup: the group at index i (0-based)
\* gets priority basePriority - i and, by the i+1-th call of
\* newUpstreamResolver the loop makes, a handler; when that call fails the
\* loop returns the error; a handler none of whose servers is a UDP one is
\* stopped and left out.  The result is the server (handlers stopped,
\* resolvers counted), the mux updates and whether the loop returned an error.
createHandlersForDomainGroup(st, domainGroup, basePriority) ==
    LET break == breakIndex(domainGroup, basePriority)
        failing == {i \in 0..(break - 1) : resolverFails(st, i + 1)}
        \* the iterations that got a handler
        made == IF failing = {} THEN break ELSE CHOOSE i \in failing : TRUE
        upstreamServers(i) == udpServers(domainGroup.groups[i + 1].NameServers, 1)
        indices == SelectSeq([k \in 1..made |-> k - 1],
                             LAMBDA i : Len(upstreamServers(i)) # 0)
        stopped == {Handler("upstream", domainGroup.domain, <<>>, st.gen,
                            basePriority - i, <<>>, FALSE) :
                       i \in {i \in 0..(made - 1) : Len(upstreamServers(i)) = 0}}
    IN [st |-> [st EXCEPT
                  !.runtime.resolvers = @ + made + (IF failing = {} THEN 0 ELSE 1),
                  !.stopped = @ \cup stopped],
        muxUpdates |->
           IF failing # {} THEN <<>>
           ELSE [k \in 1..Len(indices) |->
                    LET i == indices[k]
                        nsGroup == domainGroup.groups[i + 1]
                        priority == basePriority - i
                    IN handlerWrapper(domainGroup.domain,
                          Handler("upstream", domainGroup.domain, upstreamServers(i),
                                  st.gen, priority, nsGroup.Domains, nsGroup.Primary),
                          priority)],
        err |-> failing # {}]

\* the loop of buildUpstreamHandlerUpdate over groupedNS, from its k-th element
RECURSIVE upstreamMuxUpdates(_, _, _)
upstreamMuxUpdates(st, groupedNS, k) ==
    IF k > Len(groupedNS) THEN [st |-> st, muxUpdates |-> <<>>, err |-> FALSE]
    ELSE LET domainGroup == groupedNS[k]
             basePriority == IF domainGroup.domain = RootZone THEN PriorityDefault
                             ELSE PriorityUpstream
             updates == createHandlersForDomainGroup(st, domainGroup, basePriority)
             rest == upstreamMuxUpdates(updates.st, groupedNS, k + 1)
         IN IF updates.err THEN updates
            ELSE [st |-> rest.st,
                  muxUpdates |-> IF rest.err THEN <<>>
                                 ELSE updates.muxUpdates \o rest.muxUpdates,
                  err |-> rest.err]

\* err is TRUE when the groups are rejected or a resolver cannot be made; st
\* is the server with the handlers stopped by the builder
buildUpstreamHandlerUpdate(st, nameServerGroups) ==
    IF invalidGroups(nameServerGroups)
    THEN [st |-> st, muxUpdates |-> <<>>, err |-> TRUE]
    ELSE upstreamMuxUpdates(
            st, groupNSGroupsByDomain(nameServerGroups, st.runtime.domainMap), 1)

(***************************************************************************)
(* updateMux.                                                              *)
(***************************************************************************)
\* the first loop: deregister and stop every entry of dnsMuxMap
deregisterExisting(st) ==
    LET existing == {st.dnsMuxMap[id] : id \in DOMAIN st.dnsMuxMap}
    IN [st EXCEPT !.handlerChain =
                     {e \in @ : ~\E x \in existing :
                                    /\ x.domain # ""
                                    /\ e.domain = Fqdn(x.domain)
                                    /\ e.priority = x.priority},
                  !.stopped = @ \cup {x.handler : x \in existing}]

\* the second loop: register every update and key it by its handler's ID
RECURSIVE registerUpdates(_, _, _, _)
registerUpdates(st, muxUpdateMap, muxUpdates, i) ==
    IF i > Len(muxUpdates) THEN [st |-> st, muxUpdateMap |-> muxUpdateMap]
    ELSE LET update == muxUpdates[i]
         IN registerUpdates(
                registerHandler(st, <<update.domain>>, update.handler, update.priority),
                MapPut(muxUpdateMap, ID(update.handler), update), muxUpdates, i + 1)

\* seeded fault: the root handler of the hosts' DNS servers is not restored
registerNew_NoRestore(st, muxUpdates) ==
    LET r == registerUpdates(st, EmptyMap, muxUpdates, 1)
    IN [r.st EXCEPT !.dnsMuxMap = r.muxUpdateMap]

\* what follows the second loop: with no root update among muxUpdates, the
\* root handler of the hosts' DNS servers is registered when dnsMuxMap,
\* still the old one, has a root entry
restoreHostRoot(st, muxUpdates) ==
    LET containsRootUpdate == \E i \in 1..Len(muxUpdates) : muxUpdates[i].domain = RootZone
        hadRoot == \E id \in DOMAIN st.dnsMuxMap : st.dnsMuxMap[id].domain = RootZone
    IN IF ~containsRootUpdate /\ hadRoot THEN addHostRootZone(st) ELSE st

\* what follows the first loop: the second loop, the root handler of the
\* hosts' DNS servers, and the new dnsMuxMap
registerNew(st, muxUpdates) ==
    LET r == registerUpdates(st, EmptyMap, muxUpdates, 1)
    IN [restoreHostRoot(r.st, muxUpdates) EXCEPT !.dnsMuxMap = r.muxUpdateMap]

updateMux(st, muxUpdates) == registerNew(deregisterExisting(st), muxUpdates)

(***************************************************************************)
(* The host DNS config of an update, and the structural hash.              *)
(***************************************************************************)
RECURSIVE groupDomainConfigs(_, _)
groupDomainConfigs(nameServerGroups, i) ==
    IF i > Len(nameServerGroups) THEN <<>>
    ELSE LET nsConfig == nameServerGroups[i]
         IN (IF Len(nsConfig.NameServers) = 0 THEN <<>>
             ELSE [j \in 1..Len(nsConfig.Domains) |->
                      DomainConfig(Fqdn(nsConfig.Domains[j]),
                                   ~nsConfig.SearchDomainsEnabled, FALSE)])
            \o groupDomainConfigs(nameServerGroups, i + 1)

\* no zone of the model is a reverse zone, so a custom zone is never match-only
dnsConfigToHostDNSConfig(dnsConfig, ip, port) ==
    [ServerIP |-> ip,
     ServerPort |-> port,
     RouteAll |-> \E i \in 1..Len(dnsConfig.NameServerGroups) :
                     /\ Len(dnsConfig.NameServerGroups[i].NameServers) # 0
                     /\ dnsConfig.NameServerGroups[i].Primary,
     Domains |-> groupDomainConfigs(dnsConfig.NameServerGroups, 1)
                 \o [j \in 1..Len(dnsConfig.CustomZones) |->
                        DomainConfig(Fqdn(dnsConfig.CustomZones[j].Domain), FALSE, FALSE)]]

\* hashstructure.Hash with SlicesAsSets: a slice is hashed as the XOR of its
\* elements' hashes, so the order is lost and an element occurring twice cancels
Hash(update) ==
    <<[ServiceEnable |-> update.ServiceEnable,
       CustomZones |-> OddSet([i \in 1..Len(update.CustomZones) |->
                          [Domain |-> update.CustomZones[i].Domain,
                           Records |-> OddSet(update.CustomZones[i].Records)]]),
       NameServerGroups |-> OddSet([i \in 1..Len(update.NameServerGroups) |->
                          [NameServers |-> OddSet(update.NameServerGroups[i].NameServers),
                           Domains |-> OddSet(update.NameServerGroups[i].Domains),
                           Primary |-> update.NameServerGroups[i].Primary,
                           SearchDomainsEnabled |->
                               update.NameServerGroups[i].SearchDomainsEnabled]])]>>

(***************************************************************************)
(* enableDNS, disableDNS, applyConfiguration, UpdateDNSServer.             *)
(***************************************************************************)
\* s.initialize(): the host manager of this operating system, or an error
initialize(st) ==
    IF "initialize" \in st.runtime.faults
    THEN [hostManager |-> "noop", st |-> Failed(st, "initialize"), err |-> TRUE]
    ELSE [hostManager |-> "real", st |-> st, err |-> FALSE]

\* seeded fault: the host manager is initialized whatever disableSys and
\* the netstack mode say
enableDNS_NoSysCheck(st) ==
    LET listened == Listen(st)
        initialized == initialize(listened.st)
    IN IF listened.err THEN listened.st
       ELSE IF ~isUsingNoopHostManager(listened.st) THEN listened.st
       ELSE IF RuntimeIP(listened.st) = ZeroAddr THEN Failed(listened.st, "runtimeIP")
       ELSE IF initialized.err THEN initialized.st
       ELSE [initialized.st EXCEPT !.hostManager = initialized.hostManager]

\* the error enableDNS returns is logged by applyConfiguration, which goes on
enableDNS(st) ==
    LET listened == Listen(st)
        initialized == initialize(listened.st)
    IN IF listened.err THEN listened.st
       ELSE IF ~isUsingNoopHostManager(listened.st) THEN listened.st
       ELSE IF st.disableSys \/ st.netstack THEN listened.st
       ELSE IF RuntimeIP(listened.st) = ZeroAddr THEN Failed(listened.st, "runtimeIP")
       ELSE IF initialized.err THEN initialized.st
       ELSE [initialized.st EXCEPT !.hostManager = initialized.hostManager]

\* seeded fault: a failed restoreHostDNS ends disableDNS
disableDNS_FailureReturns(st, restoreOk) ==
    IF isUsingNoopHostManager(st) THEN ServiceStop(st)
    ELSE LET dereg == IF Len(getOriginalNameservers(st)) > 0
                      THEN deregisterHandler(st, <<RootZone>>, PriorityFallback)
                      ELSE st
             restored == restoreHostDNS(dereg, restoreOk)
         IN IF restoreOk
            THEN ServiceStop([DeleteState(restored) EXCEPT !.hostManager = "noop"])
            ELSE ServiceStop(restored)

disableDNS(st, restoreOk) ==
    IF isUsingNoopHostManager(st) THEN ServiceStop(st)
    ELSE LET dereg == IF Len(getOriginalNameservers(st)) > 0
                      THEN deregisterHandler(st, <<RootZone>>, PriorityFallback)
                      ELSE st
             restored == restoreHostDNS(dereg, restoreOk)
             deleted == IF restoreOk THEN DeleteState(restored) ELSE restored
         IN ServiceStop([deleted EXCEPT !.hostManager = "noop"])

\* seeded fault: the service is torn down on a permanent server too
enableOrDisableDNS_NoPermanentCheck(st, update, restoreOk) ==
    IF update.ServiceEnable THEN enableDNS(st)
    ELSE disableDNS(st, restoreOk)

\* the status recorder and the search-domain notifier receive what this
\* computes and give nothing back; they are left out
\* the listener and the host manager follow update.ServiceEnable
enableOrDisableDNS(st, update, restoreOk) ==
    IF update.ServiceEnable THEN enableDNS(st)
    ELSE IF ~st.permanent THEN disableDNS(st, restoreOk)
    ELSE st

\* the handlers of the update, built by the update numbered gen + 1; an
\* update that is rejected is not numbered
buildHandlerUpdates(st, update) ==
    LET local == buildLocalHandlerUpdate(update.CustomZones)
        upstream == buildUpstreamHandlerUpdate([st EXCEPT !.gen = @ + 1],
                                               update.NameServerGroups)
    IN [err |-> upstream.err,
        st |-> IF upstream.err THEN [upstream.st EXCEPT !.gen = st.gen]
               ELSE upstream.st,
        muxUpdates |-> local.muxUpdates \o upstream.muxUpdates,
        localRecords |-> local.localRecords]

\* s.currentConfig of the update, RouteAll forced off where the listener's
\* port cannot be told to the host manager
setCurrentConfig(st, update) ==
    LET hostConfig == dnsConfigToHostDNSConfig(update, RuntimeIP(st), st.runtimePort)
    IN [st EXCEPT !.currentConfig =
                     IF st.runtimePort # defaultPort /\ ~supportCustomPort(st)
                     THEN [hostConfig EXCEPT !.RouteAll = FALSE]
                     ELSE hostConfig]

\* applyConfiguration once the service is enabled or disabled and the
\* builders have returned built
applyBuilt(built, update) ==
    LET swapped == [updateMux(built.st, built.muxUpdates)
                       EXCEPT !.localRecords = built.localRecords]
        current == setCurrentConfig(swapped, update)
    IN IF built.err THEN [built.st EXCEPT !.op.ret = "err_apply"]
       ELSE applyHostConfig(current)

applyConfiguration(st, update, restoreOk) ==
    LET toggled == enableOrDisableDNS(st, update, restoreOk)
    IN CHOOSE applied \in {applyBuilt(built, update) :
                              built \in {buildHandlerUpdates(toggled, update)}} : TRUE

\* seeded fault: the serial is not compared with updateSerial
UpdatePreLock_NoSerialCheck(st, serial) ==
    IF st.ctxErr THEN "err_ctx" ELSE "ok"

\* the checks UpdateDNSServer makes before it takes the mutex
UpdatePreLock(st, serial) ==
    IF st.ctxErr THEN "err_ctx"
    ELSE IF serial < st.updateSerial THEN "err_stale"
    ELSE "ok"

\* seeded fault: the hash is not compared with previousConfigHash
UpdateLocked_NoHashCheck(st, serial, update, restoreOk) ==
    LET applied == applyConfiguration(st, update, restoreOk)
    IN IF applied.op.ret = "err_apply" THEN applied
       ELSE [applied EXCEPT !.updateSerial = serial, !.previousConfigHash = Hash(update)]

\* the part of UpdateDNSServer under the mutex
UpdateLocked(st, serial, update, restoreOk) ==
    LET hash == Hash(update)
        applied == applyConfiguration(st, update, restoreOk)
    IN IF st.previousConfigHash = hash
       THEN [st EXCEPT !.updateSerial = serial, !.op.ret = "unchanged"]
       ELSE IF applied.op.ret = "err_apply" THEN applied
       ELSE [applied EXCEPT !.updateSerial = serial, !.previousConfigHash = hash]

\* seeded fault: the loop of deactivate ends at the first entry it finds
RECURSIVE disableDomains_FirstOnly(_, _, _, _)
disableDomains_FirstOnly(st, removeIndex, priority, i) ==
    IF i >= Len(st.currentConfig.Domains) THEN [st |-> st, removeIndex |-> removeIndex]
    ELSE LET item == st.currentConfig.Domains[i + 1]
         IN IF item.Domain \in DOMAIN removeIndex
            THEN [st |-> deregisterHandler(
                            [st EXCEPT !.currentConfig.Domains[i + 1].Disabled = TRUE],
                            <<item.Domain>>, priority),
                  removeIndex |-> MapPut(removeIndex, item.Domain, i)]
            ELSE disableDomains_FirstOnly(st, removeIndex, priority, i + 1)

\* seeded fault: reactivate does not compare the domain at the recorded index
RECURSIVE enableDomains_NoNameCheck(_, _, _, _)
enableDomains_NoNameCheck(st, removeIndex, keys, h) ==
    IF keys = <<>> THEN st
    ELSE LET domain == Head(keys)
             i == removeIndex[domain]
         IN IF \/ i = 0 - 1
               \/ i >= Len(st.currentConfig.Domains)
            THEN enableDomains_NoNameCheck(st, removeIndex, Tail(keys), h)
            ELSE enableDomains_NoNameCheck(
                    registerHandler(
                        [st EXCEPT !.currentConfig.Domains[i + 1].Disabled = FALSE],
                        <<domain>>, h, h.priority),
                    removeIndex, Tail(keys), h)

\* seeded fault: match-only domains are not passed over
RECURSIVE searchDomainsFrom_MatchOnlyKept(_, _)
searchDomainsFrom_MatchOnlyKept(domains, i) ==
    IF i > Len(domains) THEN <<>>
    ELSE (IF domains[i].Disabled THEN <<>> ELSE <<domains[i].Domain>>)
         \o searchDomainsFrom_MatchOnlyKept(domains, i + 1)

\* the loop of SearchDomains from index i
RECURSIVE searchDomainsFrom(_, _)
searchDomainsFrom(domains, i) ==
    IF i > Len(domains) THEN <<>>
    ELSE (IF domains[i].Disabled THEN <<>>
          ELSE IF domains[i].MatchOnly THEN <<>>
          ELSE <<domains[i].Domain>>)
         \o searchDomainsFrom(domains, i + 1)

SearchDomains(st) == searchDomainsFrom(st.currentConfig.Domains, 1)

(***************************************************************************)
(* upstreamCallbacks: deactivate and reactivate of handler h.  The closure *)
(* variable removeIndex of h is st.removeIndex[h]; it is read by           *)
(* reactivate only, which runs after a deactivate has written it.          *)
(* Indices are those of the code (from 0, -1 for none).                    *)
(***************************************************************************)
RECURSIVE initRemoveIndex(_, _, _)
initRemoveIndex(m, domains, j) ==
    IF j > Len(domains) THEN m
    ELSE initRemoveIndex(MapPut(m, domains[j], 0 - 1), domains, j + 1)

\* the loop of deactivate over currentConfig.Domains, from index i
RECURSIVE disableDomains(_, _, _, _)
disableDomains(st, removeIndex, priority, i) ==
    IF i >= Len(st.currentConfig.Domains) THEN [st |-> st, removeIndex |-> removeIndex]
    ELSE LET item == st.currentConfig.Domains[i + 1]
         IN IF item.Domain \in DOMAIN removeIndex
            THEN disableDomains(
                    deregisterHandler(
                        [st EXCEPT !.currentConfig.Domains[i + 1].Disabled = TRUE],
                        <<item.Domain>>, priority),
                    MapPut(removeIndex, item.Domain, i), priority, i + 1)
            ELSE disableDomains(st, removeIndex, priority, i + 1)

deactivate(st, h) ==
    LET priority == h.priority
        index0 == initRemoveIndex(EmptyMap, h.Domains, 1)
        index1 == IF h.Primary THEN MapPut(index0, RootZone, 0 - 1) ELSE index0
        routed == IF h.Primary
                  THEN deregisterHandler([st EXCEPT !.currentConfig.RouteAll = FALSE],
                                         <<RootZone>>, priority)
                  ELSE st
        r == disableDomains(routed, index1, priority, 0)
        applied == applyHostConfig(r.st)
        android == IF st.android /\ h.Primary /\ st.hostsDNSHolder # {}
                   THEN addHostRootZone(applied) ELSE applied
    IN [android EXCEPT !.removeIndex = MapPut(@, h, r.removeIndex)]

\* the loop of reactivate over removeIndex, keys in the order of a map range
RECURSIVE enableDomains(_, _, _, _)
enableDomains(st, removeIndex, keys, h) ==
    IF keys = <<>> THEN st
    ELSE LET domain == Head(keys)
             i == removeIndex[domain]
         IN IF \/ i = 0 - 1
               \/ i >= Len(st.currentConfig.Domains)
               \/ st.currentConfig.Domains[i + 1].Domain # domain
            THEN enableDomains(st, removeIndex, Tail(keys), h)
            ELSE enableDomains(
                    registerHandler(
                        [st EXCEPT !.currentConfig.Domains[i + 1].Disabled = FALSE],
                        <<domain>>, h, h.priority),
                    removeIndex, Tail(keys), h)

reactivate(st, h) ==
    LET removeIndex == st.removeIndex[h]
        enabled == enableDomains(st, removeIndex, SetToSeq(DOMAIN removeIndex), h)
        routed == IF h.Primary
                  THEN registerHandler([enabled EXCEPT !.currentConfig.RouteAll = TRUE],
                                       <<RootZone>>, h, h.priority)
                  ELSE enabled
    IN [applyHostConfig(routed) EXCEPT !.removeIndex = MapDelete(@, h)]

(***************************************************************************)
(* RegisterHandler, DeregisterHandler, Initialize, Stop,                   *)
(* OnUpdatedHostDNSServer.                                                 *)
(***************************************************************************)
RECURSIVE incExtraDomains(_, _, _)
incExtraDomains(extraDomains, domains, i) ==
    IF i > Len(domains) THEN extraDomains
    ELSE LET zone == toZone(domains[i])
         IN incExtraDomains(
                MapPut(extraDomains, zone,
                       (IF zone \in DOMAIN extraDomains THEN extraDomains[zone] ELSE 0) + 1),
                domains, i + 1)

\* seeded fault: a refcount that reaches zero is kept in the map
RECURSIVE decExtraDomains_ZeroKept(_, _, _)
decExtraDomains_ZeroKept(extraDomains, domains, i) ==
    IF i > Len(domains) THEN extraDomains
    ELSE LET zone == toZone(domains[i])
             count == (IF zone \in DOMAIN extraDomains THEN extraDomains[zone] ELSE 0) - 1
         IN decExtraDomains_ZeroKept(
                IF count < 0 THEN MapDelete(extraDomains, zone)
                ELSE MapPut(extraDomains, zone, count),
                domains, i + 1)

\* seeded fault: only a refcount of exactly zero is taken out of the map
RECURSIVE decExtraDomains_NegativeKept(_, _, _)
decExtraDomains_NegativeKept(extraDomains, domains, i) ==
    IF i > Len(domains) THEN extraDomains
    ELSE LET zone == toZone(domains[i])
             count == (IF zone \in DOMAIN extraDomains THEN extraDomains[zone] ELSE 0) - 1
         IN decExtraDomains_NegativeKept(
                IF count = 0 THEN MapDelete(extraDomains, zone)
                ELSE MapPut(extraDomains, zone, count),
                domains, i + 1)

RECURSIVE decExtraDomains(_, _, _)
decExtraDomains(extraDomains, domains, i) ==
    IF i > Len(domains) THEN extraDomains
    ELSE LET zone == toZone(domains[i])
             count == (IF zone \in DOMAIN extraDomains THEN extraDomains[zone] ELSE 0) - 1
         IN decExtraDomains(
                IF count <= 0 THEN MapDelete(extraDomains, zone)
                ELSE MapPut(extraDomains, zone, count),
                domains, i + 1)

RegisterHandler(st, domains, handler, priority) ==
    LET registered == registerHandler(st, domains, handler, priority)
    IN applyHostConfig([registered EXCEPT !.extraDomains = incExtraDomains(@, domains, 1)])

DeregisterHandler(st, domains, priority) ==
    LET deregistered == deregisterHandler(st, domains, priority)
    IN applyHostConfig([deregistered EXCEPT !.extraDomains = decExtraDomains(@, domains, 1)])

\* stateManager.RegisterState(&ShutdownState{})
RegisterState(st) ==
    [st EXCEPT !.shutdownState = IF @ = "unregistered" THEN "registered" ELSE @]

Initialize(st) ==
    LET listened == IF st.permanent THEN Listen(st) ELSE [st |-> st, err |-> FALSE]
        registered == RegisterState(listened.st)
        initialized == initialize(registered)
    IN IF ~isUsingNoopHostManager(st) THEN st
       ELSE IF listened.err THEN [listened.st EXCEPT !.op.ret = "err_listen"]
       ELSE IF st.disableSys \/ st.netstack THEN registered
       ELSE IF initialized.err THEN [initialized.st EXCEPT !.op.ret = "err_initialize"]
       ELSE [initialized.st EXCEPT !.hostManager = initialized.hostManager]

\* s.ctxCancel(), the first statement of Stop, made before the mutex is taken
ctxCancel(st) == [st EXCEPT !.ctxErr = TRUE]

\* the rest of Stop, under the mutex
StopLocked(st, restoreOk) ==
    LET disabled == disableDNS(st, restoreOk)
    IN [disabled EXCEPT !.extraDomains = EmptyMap,
                        !.stopRestored = disabled.op.restored]

\* the loop of OnUpdatedHostDNSServer over dnsMuxMap
hasRootHandler(st) == \E id \in DOMAIN st.dnsMuxMap : st.dnsMuxMap[id].domain = RootZone

(***************************************************************************)
(* Inputs: name servers, name-server groups, custom zones, configs.        *)
(***************************************************************************)
NameServer(ip, nsType) == [IP |-> ip, Port |-> defaultPort, NSType |-> nsType]
NS1 == NameServer("1.1.1.1", "udp")
NS2 == NameServer("8.8.8.8", "udp")
NSTcp == NameServer("9.9.9.9", "tcp")

NameServerGroup(nameServers, domains, primary, searchDomainsEnabled) ==
    [NameServers |-> nameServers, Domains |-> domains, Primary |-> primary,
     SearchDomainsEnabled |-> searchDomainsEnabled]

GroupA1 == NameServerGroup(<<NS1>>, <<"a.">>, FALSE, TRUE)
GroupA2 == NameServerGroup(<<NS2>>, <<"a.">>, FALSE, FALSE)
GroupAB == NameServerGroup(<<NS2>>, <<"a.", "b.">>, FALSE, FALSE)
GroupB1 == NameServerGroup(<<NS1>>, <<"b.">>, FALSE, TRUE)
GroupP1 == NameServerGroup(<<NS1>>, <<>>, TRUE, FALSE)
GroupP2 == NameServerGroup(<<NS2, NSTcp>>, <<>>, TRUE, FALSE)
GroupTcp == NameServerGroup(<<NSTcp>>, <<"b.">>, FALSE, FALSE)
GroupATcp == NameServerGroup(<<NSTcp>>, <<"a.">>, FALSE, FALSE)
\* malformed: not primary and no domain; an empty domain; and a group
\* without name servers, which the validation passes over
GroupNoDomain == NameServerGroup(<<NS1>>, <<>>, FALSE, FALSE)
GroupEmptyDomain == NameServerGroup(<<NS1>>, <<"a.", "">>, FALSE, FALSE)
GroupNoServers == NameServerGroup(<<>>, <<"b.">>, FALSE, FALSE)

SimpleRecord(name, class) == [Name |-> name, Class |-> class]
CustomZone(domain, records) == [Domain |-> domain, Records |-> records]
ZoneA == CustomZone("a.", <<SimpleRecord("h.a.", "IN")>>)
ZoneB == CustomZone("b.", <<SimpleRecord("h.b.", "IN"), SimpleRecord("x.b.", "CH")>>)
ZoneEmpty == CustomZone("b.", <<>>)

Config(serviceEnable, customZones, nameServerGroups) ==
    [ServiceEnable |-> serviceEnable, CustomZones |-> customZones,
     NameServerGroups |-> nameServerGroups]

WellFormedConfigs ==
    { Config(TRUE, <<ZoneA, ZoneB>>, <<>>),
      Config(TRUE, <<ZoneA>>, <<GroupB1, GroupP2>>),
      Config(TRUE, <<>>, <<GroupAB, GroupB1>>),
      Config(TRUE, <<>>, <<GroupB1, GroupAB>>),
      Config(TRUE, <<ZoneEmpty>>, <<GroupA2, GroupTcp, GroupNoServers>>),
      Config(FALSE, <<>>, <<GroupA1>>) }

MalformedConfigs ==
    { Config(TRUE, <<>>, <<GroupA1, GroupNoDomain>>),
      Config(FALSE, <<>>, <<GroupEmptyDomain>>) }

\* the configs of sequential runs of updates
Configs == WellFormedConfigs \cup MalformedConfigs

\* the configs of runs with deactivations and reactivations
CallbackConfigs ==
    { Config(TRUE, <<>>, <<GroupP1>>),
      Config(TRUE, <<ZoneA, ZoneB>>, <<>>),
      Config(TRUE, <<>>, <<GroupAB, GroupB1>>),
      Config(TRUE, <<>>, <<GroupA1, GroupP2>>) }

\* the configs of runs with externally registered handlers
ExtraConfigs ==
    { Config(TRUE, <<ZoneA>>, <<GroupB1, GroupP2>>),
      Config(TRUE, <<ZoneB>>, <<GroupA1, GroupAB>>) }

\* the configs of runs in which Stop races with the other calls
RaceConfigs ==
    { Config(TRUE, <<>>, <<GroupA1, GroupP2>>),
      Config(FALSE, <<>>, <<GroupA1>>) }

\* domain lists handed to RegisterHandler and DeregisterHandler
DomainLists == { <<"a.">>, <<"A", "b.">>, <<"a.", "A">> }
\* the domain list of runs that mix registrations with updates and callbacks:
\* a zone of the configs, in upper case, and a zone of no config
ExtraDomainLists == { <<"A", "c.">> }
\* the priority external callers register at, between the local and the upstream tier
RegisterPriorities == { PriorityUpstream + 25 }
\* lists handed to OnUpdatedHostDNSServer
HostsDnsLists == { <<>>, <<"192.168.0.1">> }
\* the list handed to NewDefaultServerPermanentUpstream
AndroidHostsDnsList == <<"192.168.0.1", "192.168.0.2">>

(***************************************************************************)
(* The server after construction (newDefaultServer).                       *)
(***************************************************************************)
NoOp == [name |-> "none", ret |-> "ok", applies |-> 0, errors |-> {},
         restored |-> FALSE, restoreFailed |-> FALSE,
         serial |-> 0, stale |-> FALSE, sameHash |-> FALSE, before |-> <<>>,
         handler |-> <<>>]

Env(disableSys, netstack, android, runtimePort, customPort, originalNameservers) ==
    [disableSys |-> disableSys, netstack |-> netstack, android |-> android,
     runtimePort |-> runtimePort, supportCustomPort |-> customPort,
     originalNameservers |-> originalNameservers]

DesktopEnv == Env(FALSE, FALSE, FALSE, defaultPort, TRUE, <<"10.0.0.1", ServerIP, "fd00::1">>)

newDefaultServer(env) ==
    [ctxErr |-> FALSE,
     disableSys |-> env.disableSys,
     listening |-> FALSE,
     dnsMuxMap |-> EmptyMap,
     localRecords |-> <<>>,
     hostManager |-> "noop",
     updateSerial |-> 0,
     previousConfigHash |-> <<>>,
     currentConfig |-> [ServerIP |-> ZeroAddr, ServerPort |-> 0, RouteAll |-> FALSE,
                        Domains |-> <<>>],
     handlerChain |-> {},
     extraDomains |-> EmptyMap,
     permanent |-> FALSE,
     hostsDNSHolder |-> {},
     \* the environment
     netstack |-> env.netstack,
     android |-> env.android,
     runtimePort |-> env.runtimePort,
     supportCustomPort |-> env.supportCustomPort,
     originalNameservers |-> env.originalNameservers,
     \* the collaborators' state
     hostDNS |-> <<>>,
     shutdownState |-> "unregistered",
     stopped |-> {},
     removeIndex |-> EmptyMap,
     \* configurations applied and deactivate callbacks run so far
     gen |-> 0,
     deactivations |-> 0,
     \* the call in progress or last made, and whether Stop restored the host DNS
     op |-> NoOp,
     stopRestored |-> FALSE,
     \* whether Initialize has been called
     initializeCalled |-> FALSE,
     \* what the runtime decides during the call in progress
     runtime |-> NoRuntime]

\* a call starts: nothing of the previous call's outcome is kept
Begin(st, name) == [st EXCEPT !.op = [NoOp EXCEPT !.name = name]]

\* the runtime's decisions during the call, and their end when it returns
Ranging(st, runtime) == [st EXCEPT !.runtime = runtime]
Returned(st) == [st EXCEPT !.runtime = NoRuntime]

\* NewDefaultServerPermanentUpstream: the holder gets the list, the server
\* is permanent, the root handler of the hosts' DNS servers is registered
\* and currentConfig is that of config
NewDefaultServerPermanentUpstream(env, hostsDnsList, config, runtime) ==
    LET ds == [newDefaultServer(env) EXCEPT !.hostsDNSHolder = Range(hostsDnsList),
                                            !.permanent = TRUE]
        rooted == addHostRootZone(Ranging(ds, runtime))
    IN Returned([rooted EXCEPT !.currentConfig =
                    dnsConfigToHostDNSConfig(config, RuntimeIP(rooted),
                                             rooted.runtimePort)])

\* the errors a method call can meet.  One of the calls of
\* newUpstreamResolver returns an error: none does (0), or one of the first
\* MaxResolverErr
ResolverErrs == {[resolverErr |-> k, faults |-> {}] : k \in 0..MaxResolverErr}
\* newUpstreamResolver, the service and s.initialize() succeed
NoResolverErr == {[resolverErr |-> 0, faults |-> {}]}
\* none or one of service.Listen(), service.RuntimeIP() and s.initialize()
\* fails
ServiceErrs ==
    {[resolverErr |-> 0, faults |-> f] : f \in {{}} \cup {{kind} : kind \in FaultKinds}}

\* the decisions the runtime can take during a call that ranges over a
\* domainMap with the keys zones, an extraDomains with the keys extra and
\* the servers hosts of the hosts-DNS holder
Runtimes(zones, extra, hosts, errs) ==
    {[domainMap |-> dm, extraDomains |-> ed, hostDNSServers |-> hs,
      resolverErr |-> e.resolverErr, resolvers |-> 0, faults |-> e.faults] :
        dm \in Orders(zones), ed \in Orders(extra), hs \in Orders(hosts), e \in errs}

\* an update whose groups are rejected does not group them by zone
UpdateRuntimes(st, update, errs) ==
    Runtimes(IF invalidGroups(update.NameServerGroups) THEN {}
             ELSE zonesOf(update.NameServerGroups),
             DOMAIN st.extraDomains, st.hostsDNSHolder, errs)

RegisterRuntimes(st, domains, errs) ==
    Runtimes({}, DOMAIN incExtraDomains(st.extraDomains, domains, 1), {}, errs)

DeregisterRuntimes(st, domains, errs) ==
    Runtimes({}, DOMAIN decExtraDomains(st.extraDomains, domains, 1), {}, errs)

CallbackRuntimes(st, errs) ==
    Runtimes({}, DOMAIN st.extraDomains, st.hostsDNSHolder, errs)

NoRoundTrip == [phase |-> "idle", domains |-> <<>>, priority |-> 0, before |-> EmptyMap,
                n |-> 0, m |-> 0]
NoTier == [phase |-> "idle", kind |-> "zone", n |-> 0, built |-> <<>>]
\* no call is inside a critical section: the mutex is free; and no call of
\* OnUpdatedHostDNSServer is in progress
NoRun == [mux |-> "free", pc |-> 0, muxUpdates |-> <<>>, localRecords |-> <<>>,
          previous |-> {}, next |-> {}, host |-> "idle", hasRootHandler |-> FALSE]

Init ==
    /\ s = newDefaultServer(DesktopEnv)
    /\ pending = <<>>
    /\ stopPc = "idle"
    /\ rt = NoRoundTrip
    /\ tier = NoTier
    /\ run = NoRun

(***************************************************************************)
(* Actions: one critical section of a method, or the part of a method      *)
(* that runs before it takes the mutex.  pending holds the calls of        *)
(* UpdateDNSServer that have passed their checks and wait for the mutex.   *)
(***************************************************************************)
InitializeCall(errs) ==
    /\ stopPc = "idle"
    /\ \E runtime \in Runtimes({}, {}, {}, errs) :
          s' = [Returned(Initialize(Ranging(Begin(s, "Initialize"), runtime)))
                   EXCEPT !.initializeCalled = TRUE]
    /\ UNCHANGED <<pending, stopPc, rt, tier, run>>

\* the outcomes restoreHostDNS can have where disableDNS reaches it
RestoreOutcomes(reached) == IF reached THEN BOOLEAN ELSE {TRUE}
UpdateRestores(st, update) ==
    RestoreOutcomes(~update.ServiceEnable /\ ~st.permanent /\ ~isUsingNoopHostManager(st))

\* what is recorded of a call of UpdateDNSServer that took before to after:
\* its serial, whether the serial was behind updateSerial, whether the hash
\* of its config was previousConfigHash and, unless it applied its config,
\* the server as the call found it
Observed(before, after, serial, update) ==
    [after EXCEPT !.op.serial = serial,
                  !.op.stale = serial < before.updateSerial,
                  !.op.sameHash = (Hash(update) = before.previousConfigHash),
                  !.op.before = IF after.op.ret = "ok" THEN <<>>
                                ELSE <<[before EXCEPT !.op = NoOp]>>]

\* an update that creates handlers is one of at most MaxApplies
WithinApplies(st, serial, update) ==
    \/ UpdatePreLock(st, serial) # "ok"
    \/ Hash(update) = st.previousConfigHash
    \/ st.gen < MaxApplies

\* UpdateDNSServer up to the mutex, called while no other call of it is in
\* progress: the context and the serial are checked, and the call returns
\* an error or goes on to wait for the mutex
UpdateEnter(serial, update) ==
    /\ pending = <<>>
    /\ WithinApplies(s, serial, update)
    /\ LET started == Begin(s, "UpdateDNSServer")
           pre == UpdatePreLock(started, serial)
       IN IF pre # "ok"
          THEN /\ s' = Observed(s, [started EXCEPT !.op.ret = pre], serial, update)
               /\ pending' = pending
          ELSE /\ s' = s
               /\ pending' = <<[serial |-> serial, update |-> update]>>
    /\ UNCHANGED <<stopPc, rt, tier, run>>

\* UpdateDNSServer from the mutex on, as one critical section
UpdateExit(restoreOk, errs) ==
    /\ pending # <<>>
    /\ \E runtime \in UpdateRuntimes(s, pending[1].update, errs) :
          s' = Returned(Observed(s,
                   UpdateLocked(Ranging(Begin(s, "UpdateDNSServer"), runtime),
                                pending[1].serial, pending[1].update, restoreOk),
                   pending[1].serial, pending[1].update))
    /\ pending' = <<>>
    /\ UNCHANGED <<stopPc, rt, tier, run>>

RefsWithin(extraDomains) == \A z \in DOMAIN extraDomains : extraDomains[z] <= MaxRefs

RegisterHandlerCall(domains, priority, errs) ==
    /\ \E runtime \in RegisterRuntimes(s, domains, errs) :
          s' = Returned(RegisterHandler(Ranging(Begin(s, "RegisterHandler"), runtime),
                                        domains, ExtraHandler, priority))
    /\ RefsWithin(s'.extraDomains)
    /\ UNCHANGED <<pending, stopPc, rt, tier, run>>

DeregisterHandlerCall(domains, priority, errs) ==
    /\ \E runtime \in DeregisterRuntimes(s, domains, errs) :
          s' = Returned(DeregisterHandler(Ranging(Begin(s, "DeregisterHandler"), runtime),
                                          domains, priority))
    /\ UNCHANGED <<pending, stopPc, rt, tier, run>>

\* the handlers a query or a probe can reach and that are not quarantined
ActiveUpstreams(st) ==
    {h \in {e.handler : e \in st.handlerChain}
             \cup {st.dnsMuxMap[id].handler : id \in DOMAIN st.dnsMuxMap} :
        h.kind = "upstream" /\ h \notin DOMAIN st.removeIndex}

\* the callbacks of handler h; what is recorded of a call is the handler
\* and the server as the call found it
DeactivateCallback(h, errs) ==
    /\ s.deactivations < MaxDeactivations
    /\ \E runtime \in CallbackRuntimes(s, errs) :
          s' = [Returned(deactivate(Ranging(Begin(s, "deactivate"), runtime), h)) EXCEPT
                   !.deactivations = @ + 1,
                   !.op.handler = <<h>>,
                   !.op.before = <<[s EXCEPT !.op = NoOp]>>]
    /\ UNCHANGED <<pending, stopPc, rt, tier, run>>

ReactivateCallback(h, errs) ==
    /\ \E runtime \in CallbackRuntimes(s, errs) :
          s' = [Returned(reactivate(Ranging(Begin(s, "reactivate"), runtime), h)) EXCEPT
                   !.op.handler = <<h>>,
                   !.op.before = <<[s EXCEPT !.op = NoOp]>>]
    /\ UNCHANGED <<pending, stopPc, rt, tier, run>>

\* Stop cancels the context before it waits for the mutex
StopCancel ==
    /\ stopPc = "idle"
    /\ s' = ctxCancel(Begin(s, "ctxCancel"))
    /\ stopPc' = "cancelled"
    /\ UNCHANGED <<pending, rt, tier, run>>

StopReturn(restoreOk) ==
    /\ stopPc = "cancelled"
    /\ s' = StopLocked(Begin(s, "Stop"), restoreOk)
    /\ stopPc' = "done"
    /\ UNCHANGED <<pending, rt, tier, run>>

(***************************************************************************)
(* Spec: the control plane delivers updates one after the other, with the  *)
(* lowest and the highest serial; Stop may come at any time, also between  *)
(* the checks of an update and its critical section.                       *)
(***************************************************************************)
Serials == {0, MaxSerial}

Next ==
    \/ InitializeCall(NoResolverErr)
    \/ \E serial \in Serials, update \in Configs : UpdateEnter(serial, update)
    \/ /\ pending # <<>>
       /\ \E restoreOk \in UpdateRestores(s, pending[1].update) :
             UpdateExit(restoreOk, NoResolverErr)
    \/ StopCancel
    \/ \E restoreOk \in RestoreOutcomes(~isUsingNoopHostManager(s)) : StopReturn(restoreOk)

Spec == Init /\ [][Next]_vars

(***************************************************************************)
(* Claims about sequential runs of updates, checked under Spec.            *)
(***************************************************************************)
\* what a rejected update must leave alone
SameConfiguration(st, after) ==
    /\ after.updateSerial = st.updateSerial
    /\ after.previousConfigHash = st.previousConfigHash
    /\ after.currentConfig = st.currentConfig
    /\ after.dnsMuxMap = st.dnsMuxMap
    /\ after.handlerChain = st.handlerChain

Accepted(st) == st.op.name = "UpdateDNSServer" /\ st.op.ret \in {"ok", "unchanged"}
Rejected(st) == st.op.name = "UpdateDNSServer" /\ st.op.ret \in {"err_ctx", "err_stale", "err_apply"}

\* C1: updateSerial never goes back; a call with serial that returns without
\* error leaves updateSerial >= serial; a call with a serial below
\* updateSerial returns an error and leaves updateSerial, previousConfigHash,
\* currentConfig, dnsMuxMap and the handler chain as they were.
C1_StaleSerialRejected ==
    [][ /\ s'.updateSerial >= s.updateSerial
        /\ Accepted(s') => s'.updateSerial >= s'.op.serial
        /\ (s'.op.name = "UpdateDNSServer" /\ s'.op.stale)
              => /\ Rejected(s')
                 /\ s'.op.before = <<[s EXCEPT !.op = NoOp]>>
                 /\ SameConfiguration(s, s')
      ]_vars

\* a stale update with another config has been rejected after one was applied
C1_Witness ==
    /\ s.op.name = "UpdateDNSServer"
    /\ s.op.ret = "err_stale"
    /\ s.op.stale
    /\ ~s.op.sameHash
    /\ s.previousConfigHash # <<>>
    /\ s.updateSerial = MaxSerial

\* C2: an accepted update whose hash equals that of the last applied update
\* changes updateSerial only (handler chain, dnsMuxMap, currentConfig, local
\* records, host manager and host DNS stay) and does not call applyDNSConfig;
\* the update that was applied called it once.  (The two calls are all
\* that runs: an update whose context Stop cancelled while it waited for
\* the mutex is the case of C9 and C30.)
C2_EqualHashAdvancesSerialOnly ==
    /\ (Accepted(s) /\ s.op.sameHash)
          => /\ s.op.before # <<>>
             /\ s.updateSerial = s.op.serial
             /\ [s EXCEPT !.updateSerial = s.op.before[1].updateSerial, !.op = NoOp]
                    = s.op.before[1]
             /\ s.op.applies = 0
    /\ (s.op.name = "UpdateDNSServer" /\ s.op.ret = "ok" /\ ~s.ctxErr)
          => s.op.applies = 1

\* an equal-hash update has advanced the serial of an applied configuration
C2_Witness ==
    /\ Accepted(s)
    /\ s.op.sameHash
    /\ s.op.before # <<>>
    /\ s.updateSerial > s.op.before[1].updateSerial
    /\ s.gen > 0
    /\ s.hostDNS # <<>>

(***************************************************************************)
(* SpecRejected: Initialize and updates, of which the builders reject some *)
(* for their groups and some because newUpstreamResolver returns an error. *)
(***************************************************************************)
NextRejected ==
    \/ InitializeCall(NoResolverErr)
    \/ \E serial \in Serials, update \in Configs : UpdateEnter(serial, update)
    \/ /\ pending # <<>>
       /\ \E restoreOk \in UpdateRestores(s, pending[1].update) :
             UpdateExit(restoreOk, ResolverErrs)

SpecRejected == Init /\ [][NextRejected]_vars

\* a group the spec calls malformed
Malformed(update) ==
    \E i \in 1..Len(update.NameServerGroups) :
        LET g == update.NameServerGroups[i]
        IN \/ ~g.Primary /\ Len(g.Domains) = 0
           \/ \E j \in 1..Len(g.Domains) : g.Domains[j] = ""

\* C3: an update with a malformed group returns an error and changes neither
\* updateSerial, previousConfigHash, currentConfig, the handler chain,
\* dnsMuxMap, the host manager, the listener nor the host DNS.
C3_MalformedNotApplied ==
    [][ \A restoreOk \in BOOLEAN :
            ( /\ pending # <<>>
              /\ Malformed(pending[1].update)
              /\ UpdateExit(restoreOk, ResolverErrs) )
            => /\ Rejected(s')
               /\ SameConfiguration(s, s')
               /\ s'.hostManager = s.hostManager
               /\ s'.listening = s.listening
               /\ s'.hostDNS = s.hostDNS
      ]_vars

\* the local and upstream entries applyConfiguration builds for update, as
\* the update numbered gen builds them (in any order of the zones)
BuiltEntries(st, update, gen) ==
    LET runtime == CHOOSE r \in UpdateRuntimes(st, update, NoResolverErr) : TRUE
    IN Range(buildLocalHandlerUpdate(update.CustomZones).muxUpdates
             \o buildUpstreamHandlerUpdate(Ranging([st EXCEPT !.gen = gen], runtime),
                                           update.NameServerGroups).muxUpdates)

LocalAndUpstreamEntries(st) ==
    {e \in st.handlerChain : e.handler.kind \in {"local", "upstream"}}

\* C4: after an applied update the local and upstream entries of the chain
\* are exactly the entries built from that update.
C4_ChainIsLastConfig ==
    [][ \A restoreOk \in BOOLEAN :
            ( /\ pending # <<>>
              /\ s'.op.ret = "ok"
              /\ UpdateExit(restoreOk, NoResolverErr) )
            => LocalAndUpstreamEntries(s')
                  = BuiltEntries(s, pending[1].update, s'.gen)
      ]_vars

(***************************************************************************)
(* SpecCallbacks: updates with upstream resolvers that cross the failure   *)
(* threshold (deactivate) and come back (reactivate).  The resolver calls  *)
(* reactivate at the end of a retry loop that it started after deactivate; *)
(* a loop that has passed its last cancellation check when updateMux stops *)
(* the resolver still makes the call, which then waits for the mutex.      *)
(***************************************************************************)
NextCallbacks ==
    \/ \E serial \in 0..MaxSerial, update \in CallbackConfigs : UpdateEnter(serial, update)
    \/ /\ pending # <<>>
       /\ \E restoreOk \in UpdateRestores(s, pending[1].update) :
             UpdateExit(restoreOk, NoResolverErr)
    \/ \E h \in ActiveUpstreams(s) : DeactivateCallback(h, NoResolverErr)
    \/ \E h \in DOMAIN s.removeIndex : ReactivateCallback(h, NoResolverErr)

SpecCallbacks == Init /\ [][NextCallbacks]_vars

\* handler h was built by an update that is not the last applied one
Retired(st, h) == h.gen < st.gen

\* C5: the reactivate callback of a handler retired by a later update puts
\* the handler back into the chain for no zone and leaves
\* currentConfig.RouteAll as the later update computed it.
C5_RetiredHandlerStaysOut ==
    [][ \A h \in DOMAIN s.removeIndex :
            (Retired(s, h) /\ ReactivateCallback(h, NoResolverErr))
            => /\ \A e \in s'.handlerChain : e.handler # h
               /\ s'.currentConfig.RouteAll = s.currentConfig.RouteAll
      ]_vars

(***************************************************************************)
(* SpecTier: buildUpstreamHandlerUpdate applied to lists of n groups, with *)
(* n up to TierSlack beyond the gap between two priority tiers.            *)
(***************************************************************************)
\* n groups: all for zone a., all primary, primary ones alternating with
\* groups for the zones a. and b., or ("mixed") groups for zone a. of which
\* every third has no UDP server, with a primary group after each three
TierGroups(kind, n) ==
    [i \in 1..n |->
        CASE kind = "zone" -> (IF i % 2 = 1 THEN GroupA1 ELSE GroupA2)
          [] kind = "root" -> (IF i % 2 = 1 THEN GroupP1 ELSE GroupP2)
          [] kind = "mixed" -> (CASE i % 4 = 1 -> GroupA1
                                  [] i % 4 = 2 -> GroupATcp
                                  [] i % 4 = 3 -> GroupAB
                                  [] OTHER -> GroupP2)
          [] OTHER -> (IF i % 2 = 1 THEN GroupP1 ELSE GroupAB)]

UpstreamGap == PriorityUpstream - PriorityDefault
DefaultGap == PriorityDefault - PriorityFallback

TierSizes(kind) ==
    CASE kind = "zone" -> 1..(UpstreamGap + TierSlack)
      [] kind = "root" -> 1..(DefaultGap + TierSlack)
      [] OTHER -> 1..(2 * (UpstreamGap + TierSlack))

InitTier ==
    /\ s = newDefaultServer(DesktopEnv)
    /\ pending = <<>>
    /\ stopPc = "idle"
    /\ rt = NoRoundTrip
    /\ run = NoRun
    /\ \E kind \in {"zone", "root", "both"} :
          \E n \in TierSizes(kind) :
              tier = [phase |-> "drawn", kind |-> kind, n |-> n, built |-> <<>>]

BuildUpstreamHandlerUpdateCall ==
    /\ tier.phase = "drawn"
    /\ \E runtime \in Runtimes(zonesOf(TierGroups(tier.kind, tier.n)), {}, {},
                               NoResolverErr) :
          \E built \in {buildUpstreamHandlerUpdate(Ranging(s, runtime),
                                                   TierGroups(tier.kind, tier.n))} :
              /\ tier' = [tier EXCEPT !.phase = "built", !.built = built.muxUpdates]
              /\ s' = Returned(built.st)
    /\ UNCHANGED <<pending, stopPc, rt, run>>

NextTier == BuildUpstreamHandlerUpdateCall

SpecTier == InitTier /\ [][NextTier]_vars

\* the groups of a list that groupNSGroupsByDomain puts under zone
GroupsOfZone(groups, zone) ==
    {i \in 1..Len(groups) :
        IF groups[i].Primary THEN zone = RootZone
        ELSE \E j \in 1..Len(groups[i].Domains) : groups[i].Domains[j] = zone}

EntriesOfZone(built, zone) == {i \in 1..Len(built) : built[i].domain = zone}

MinOf(a, b) == IF a < b THEN a ELSE b

\* C6: every handler built for a non-root zone has a priority in
\* (PriorityDefault, PriorityUpstream], every handler built for the root
\* zone one in (PriorityFallback, PriorityDefault]; the priorities of one
\* zone are distinct, and of more groups than the gap of the tier the first
\* gap many get a handler and the others none.
C6_TiersNeverAlias ==
    tier.phase = "built" =>
        /\ \A i \in 1..Len(tier.built) :
              LET e == tier.built[i]
              IN /\ e.handler.priority = e.priority
                 /\ IF e.domain = RootZone
                    THEN PriorityFallback < e.priority /\ e.priority <= PriorityDefault
                    ELSE PriorityDefault < e.priority /\ e.priority <= PriorityUpstream
        /\ \A i, j \in 1..Len(tier.built) :
              (tier.built[i].domain = tier.built[j].domain
                  /\ tier.built[i].priority = tier.built[j].priority) => i = j
        /\ \A zone \in {RootZone, "a.", "b."} :
              Cardinality(EntriesOfZone(tier.built, zone))
                 = MinOf(Cardinality(GroupsOfZone(TierGroups(tier.kind, tier.n), zone)),
                         IF zone = RootZone THEN DefaultGap ELSE UpstreamGap)

\* more groups than the gap were offered for zone a. and for the root zone
C6_Witness ==
    /\ tier.phase = "built"
    /\ tier.kind = "both"
    /\ Cardinality(GroupsOfZone(TierGroups(tier.kind, tier.n), "a.")) > UpstreamGap
    /\ Cardinality(EntriesOfZone(tier.built, "a.")) = UpstreamGap
    /\ \E i \in 1..Len(tier.built) : tier.built[i].priority = PriorityDefault + 1

(***************************************************************************)
(* SpecExtra: updates, externally registered handlers, deactivations and   *)
(* reactivations.  Every update carries the serial MaxSerial.              *)
(***************************************************************************)
NextExtra ==
    \/ \E update \in ExtraConfigs : UpdateEnter(MaxSerial, update)
    \/ /\ pending # <<>>
       /\ \E restoreOk \in UpdateRestores(s, pending[1].update) :
             UpdateExit(restoreOk, NoResolverErr)
    \/ \E domains \in ExtraDomainLists, priority \in RegisterPriorities :
          RegisterHandlerCall(domains, priority, NoResolverErr)
    \/ \E domains \in ExtraDomainLists, priority \in RegisterPriorities :
          DeregisterHandlerCall(domains, priority, NoResolverErr)
    \/ \E h \in ActiveUpstreams(s) : DeactivateCallback(h, NoResolverErr)
    \/ \E h \in DOMAIN s.removeIndex : ReactivateCallback(h, NoResolverErr)

SpecExtra == Init /\ [][NextExtra]_vars

\* the entries of currentConfig.Domains that are neither disabled nor match-only
SearchEntries(st) ==
    SelectSeq(st.currentConfig.Domains, LAMBDA d : ~d.Disabled /\ ~d.MatchOnly)

\* C7: SearchDomains() is the list of the domains of the entries of
\* currentConfig.Domains that are neither disabled nor match-only, in their
\* order; RegisterHandler and DeregisterHandler do not change it, and a zone
\* that only RegisterHandler brought is not in it.
C7_SearchDomains ==
    [][ /\ SearchDomains(s') = [k \in 1..Len(SearchEntries(s')) |-> SearchEntries(s')[k].Domain]
        /\ \A d \in Range(SearchDomains(s')) :
              \E i \in 1..Len(s'.currentConfig.Domains) :
                  LET entry == s'.currentConfig.Domains[i]
                  IN entry.Domain = d /\ ~entry.Disabled /\ ~entry.MatchOnly
        /\ s'.op.name \in {"RegisterHandler", "DeregisterHandler"}
              => SearchDomains(s') = SearchDomains(s)
        /\ \A zone \in DOMAIN s'.extraDomains :
              (\A i \in 1..Len(s'.currentConfig.Domains) :
                    s'.currentConfig.Domains[i].Domain # zone)
              => zone \notin Range(SearchDomains(s'))
      ]_vars

\* a handler has been registered for a zone of no config while the config
\* has a disabled entry, a match-only entry and a search domain; the host
\* manager was given the extra zone
C7_Witness ==
    /\ s.op.name = "RegisterHandler"
    /\ "c." \in DOMAIN s.extraDomains
    /\ SearchDomains(s) # <<>>
    /\ \E i \in 1..Len(s.currentConfig.Domains) : s.currentConfig.Domains[i].Disabled
    /\ \E i \in 1..Len(s.currentConfig.Domains) :
          /\ s.currentConfig.Domains[i].MatchOnly
          /\ ~s.currentConfig.Domains[i].Disabled
    /\ s.hostDNS # <<>>
    /\ \E i \in 1..Len(s.hostDNS[1].Domains) : s.hostDNS[1].Domains[i].Domain = "c."

(***************************************************************************)
(* SpecRoundTrip: from a state reached by updates, registrations and       *)
(* deregistrations, n calls of RegisterHandler and then n calls of         *)
(* DeregisterHandler with one domain list and priority.  rt holds the      *)
(* round trip under way and extraDomains as it was when it began.          *)
(***************************************************************************)
RoundTripStart(domains, priority, n) ==
    /\ rt.phase = "idle"
    /\ rt' = [phase |-> "registering", domains |-> domains, priority |-> priority,
              before |-> s.extraDomains, n |-> n, m |-> 0]
    /\ UNCHANGED <<s, pending, stopPc, tier, run>>

RoundTripRegister ==
    /\ rt.phase = "registering"
    /\ \E runtime \in RegisterRuntimes(s, rt.domains, NoResolverErr) :
          s' = Returned(RegisterHandler(Ranging(Begin(s, "RegisterHandler"), runtime),
                                        rt.domains, ExtraHandler, rt.priority))
    /\ rt' = IF rt.m + 1 = rt.n THEN [rt EXCEPT !.phase = "deregistering", !.m = 0]
             ELSE [rt EXCEPT !.m = @ + 1]
    /\ UNCHANGED <<pending, stopPc, tier, run>>

RoundTripDeregister ==
    /\ rt.phase = "deregistering"
    /\ \E runtime \in DeregisterRuntimes(s, rt.domains, NoResolverErr) :
          s' = Returned(DeregisterHandler(Ranging(Begin(s, "DeregisterHandler"), runtime),
                                          rt.domains, rt.priority))
    /\ rt' = IF rt.m + 1 = rt.n THEN [rt EXCEPT !.phase = "done", !.m = 0]
             ELSE [rt EXCEPT !.m = @ + 1]
    /\ UNCHANGED <<pending, stopPc, tier, run>>

RoundTripEnd ==
    /\ rt.phase = "done"
    /\ rt' = NoRoundTrip
    /\ UNCHANGED <<s, pending, stopPc, tier, run>>

NextRoundTrip ==
    \/ /\ rt.phase = "idle"
       /\ \E update \in ExtraConfigs : UpdateEnter(MaxSerial, update)
    \/ /\ rt.phase = "idle"
       /\ pending # <<>>
       /\ \E restoreOk \in UpdateRestores(s, pending[1].update) :
             UpdateExit(restoreOk, NoResolverErr)
    \/ /\ rt.phase = "idle"
       /\ \E domains \in DomainLists, priority \in RegisterPriorities :
             RegisterHandlerCall(domains, priority, NoResolverErr)
    \/ /\ rt.phase = "idle"
       /\ \E domains \in DomainLists, priority \in RegisterPriorities :
             DeregisterHandlerCall(domains, priority, NoResolverErr)
    \/ \E domains \in DomainLists, priority \in RegisterPriorities, n \in 1..MaxRoundTrip :
          RoundTripStart(domains, priority, n)
    \/ RoundTripRegister
    \/ RoundTripDeregister
    \/ RoundTripEnd

SpecRoundTrip == Init /\ [][NextRoundTrip]_vars

RefCount(extraDomains, zone) == IF zone \in DOMAIN extraDomains THEN extraDomains[zone] ELSE 0

\* C8: n RegisterHandler calls followed by n DeregisterHandler calls with
\* the same domain list and priority leave extraDomains as it was before
\* the first call; between the two halves every zone of the list has its
\* count raised by n for each time the list names it.
C8_RegisterDeregisterInverse ==
    /\ rt.phase = "done" => s.extraDomains = rt.before
    /\ (rt.phase = "deregistering" /\ rt.m = 0)
          => \A zone \in DOMAIN s.extraDomains \cup DOMAIN rt.before
                             \cup {toZone(rt.domains[j]) : j \in 1..Len(rt.domains)} :
                RefCount(s.extraDomains, zone)
                   = RefCount(rt.before, zone)
                     + rt.n * Cardinality({j \in 1..Len(rt.domains) :
                                              toZone(rt.domains[j]) = zone})

\* a round trip of MaxRoundTrip calls each way has ended; it began with one
\* zone of its list counted and another one absent
C8_Witness ==
    /\ rt.phase = "done"
    /\ rt.n = MaxRoundTrip
    /\ s.op.name = "DeregisterHandler"
    /\ \E j \in 1..Len(rt.domains) : toZone(rt.domains[j]) \in DOMAIN rt.before
    /\ \E j \in 1..Len(rt.domains) : toZone(rt.domains[j]) \notin DOMAIN rt.before
    /\ \E j \in 1..Len(rt.domains) : toZone(rt.domains[j]) # rt.domains[j]

(***************************************************************************)
(* SpecRace: Stop concurrent with the calls that take the mutex.  Stop     *)
(* cancels the context before it waits for the mutex, and UpdateDNSServer  *)
(* checks the context and the serial before it waits for it, so both are   *)
(* two steps; the other calls are one critical section each.               *)
(***************************************************************************)
NextRace ==
    \/ \E update \in RaceConfigs : UpdateEnter(MaxSerial, update)
    \/ /\ pending # <<>>
       /\ \E restoreOk \in UpdateRestores(s, pending[1].update) :
             UpdateExit(restoreOk, NoResolverErr)
    \/ StopCancel
    \/ \E restoreOk \in RestoreOutcomes(~isUsingNoopHostManager(s)) : StopReturn(restoreOk)
    \/ \E domains \in ExtraDomainLists, priority \in RegisterPriorities :
          RegisterHandlerCall(domains, priority, NoResolverErr)
    \/ \E domains \in ExtraDomainLists, priority \in RegisterPriorities :
          DeregisterHandlerCall(domains, priority, NoResolverErr)
    \/ \E h \in ActiveUpstreams(s) : DeactivateCallback(h, NoResolverErr)
    \/ \E h \in DOMAIN s.removeIndex : ReactivateCallback(h, NoResolverErr)

SpecRace == Init /\ [][NextRace]_vars

\* C9: once Stop has restored the host DNS, no call makes applyDNSConfig
\* and the host DNS stays restored.
C9_NoApplyAfterRestore ==
    [][ s.stopRestored => (s'.op.applies = 0 /\ s'.hostDNS = <<>>) ]_vars

\* an update that passed the context check before Stop cancelled it has
\* applied its configuration after Stop restored the host DNS
C9_Witness ==
    /\ s.stopRestored
    /\ s.op.name = "UpdateDNSServer"
    /\ s.op.ret = "ok"
    /\ s.gen > 1
    /\ s.currentConfig.Domains # <<>>
    /\ s.hostDNS = <<>>

(***************************************************************************)
(* Stop with no other call in progress, checked under Spec.                *)
(***************************************************************************)
\* handler h no longer serves: updateMux stopped it, or it is an upstream
\* resolver, which is built on the server's context, and the context is
\* cancelled
Stopped(st, h) == h \in st.stopped \/ (h.kind = "upstream" /\ st.ctxErr)

\* C10: when Stop has returned, the context is cancelled, every handler of
\* the last applied update is out of the chain and stopped, the host manager
\* is the noop one, the listener is stopped and extraDomains is empty.
C10_StopTearsDown ==
    s.op.name = "Stop" =>
        /\ s.ctxErr
        /\ \A id \in DOMAIN s.dnsMuxMap :
              /\ s.dnsMuxMap[id] \notin s.handlerChain
              /\ Stopped(s, s.dnsMuxMap[id].handler)
        /\ isUsingNoopHostManager(s)
        /\ ~s.listening
        /\ s.extraDomains = EmptyMap

(***************************************************************************)
(* Calls made after Stop has returned, checked under SpecRace.             *)
(***************************************************************************)
\* C11: once Stop has returned, a call of UpdateDNSServer returns the
\* cancellation error, and no call changes the handler chain, extraDomains,
\* currentConfig, the hosts-DNS holder, the host manager or the host DNS.
\* (An update that passed the context check before Stop is not a call made
\* afterwards: pending is empty.)
C11_NoSideEffectAfterStop ==
    [][ (stopPc = "done" /\ pending = <<>>)
          => /\ s'.op.name = "UpdateDNSServer" => s'.op.ret = "err_ctx"
             /\ s'.handlerChain = s.handlerChain
             /\ s'.extraDomains = s.extraDomains
             /\ s'.currentConfig = s.currentConfig
             /\ s'.hostsDNSHolder = s.hostsDNSHolder
             /\ s'.hostManager = s.hostManager
             /\ s'.hostDNS = s.hostDNS
      ]_vars

(***************************************************************************)
(* SpecSteps: UpdateDNSServer statement by statement.  run.mux is the      *)
(* holder of s.mux, run.pc the index in applyConfigurationSteps of the     *)
(* step the update makes next (0: no update holds the mutex), and          *)
(* run.previous and run.next the local and upstream entries of the chain   *)
(* before the update and as updateMux leaves them.  The other calls take   *)
(* the mutex for the whole of their body, so they run while it is free.    *)
(***************************************************************************)
\* The statements of applyConfiguration are, in the order the code makes
\* them: enableDNS/disableDNS and the two builders; the two loops of
\* updateMux, its restoring of the hosts' root handler and its assignment
\* of dnsMuxMap; localResolver.Update and the assignment of currentConfig;
\* applyHostConfig.  A loop is one step: a call that takes no mutex and
\* runs between two of its iterations leaves the chain as it does when it
\* runs before the loop or after it.
\* seeded fault: the host is configured before the chain is swapped
applyConfigurationSteps_HostFirst ==
    <<"build", "config", "host", "deregister", "register", "restore", "muxmap">>

applyConfigurationSteps ==
    <<"build", "deregister", "register", "restore", "muxmap", "config", "host">>

StepIs(name) ==
    /\ run.pc \in 1..Len(applyConfigurationSteps)
    /\ applyConfigurationSteps[run.pc] = name

StepsConfigs ==
    { Config(TRUE, <<ZoneA>>, <<GroupB1, GroupP2>>),
      Config(TRUE, <<>>, <<GroupA1, GroupAB>>),
      Config(TRUE, <<>>, <<GroupA1, GroupNoDomain>>) }

\* the mutex is taken and the hash compared with previousConfigHash
UpdateLockStep ==
    /\ pending # <<>>
    /\ run.pc = 0
    /\ run.mux = "free"
    /\ LET started == Begin(s, "UpdateDNSServer")
       IN IF s.previousConfigHash = Hash(pending[1].update)
          THEN /\ s' = [started EXCEPT !.updateSerial = pending[1].serial,
                                       !.op.ret = "unchanged"]
               /\ pending' = <<>>
               /\ run' = run
          ELSE /\ s' = started
               /\ pending' = pending
               /\ run' = [run EXCEPT !.mux = "UpdateDNSServer", !.pc = 1]
    /\ UNCHANGED <<stopPc, rt, tier>>

\* the mutex is released: what run holds of the update is dropped, what it
\* holds of a call of OnUpdatedHostDNSServer in progress stays
Unlocked(r) == [NoRun EXCEPT !.host = r.host, !.hasRootHandler = r.hasRootHandler]

\* enableDNS or disableDNS and the two builders; when a builder fails the
\* update returns its error
UpdateBuildStep(restoreOk) ==
    /\ StepIs("build")
    /\ \E runtime \in UpdateRuntimes(s, pending[1].update, NoResolverErr) :
          LET toggled == enableOrDisableDNS(Ranging(s, runtime), pending[1].update,
                                            restoreOk)
              built == buildHandlerUpdates(toggled, pending[1].update)
          IN IF built.err
             THEN /\ s' = Returned([built.st EXCEPT !.op.ret = "err_apply"])
                  /\ pending' = <<>>
                  /\ run' = Unlocked(run)
             ELSE /\ s' = Returned(built.st)
                  /\ pending' = pending
                  /\ run' = [run EXCEPT
                               !.pc = @ + 1,
                               !.muxUpdates = built.muxUpdates,
                               !.localRecords = built.localRecords,
                               !.previous = {e \in s.handlerChain :
                                                e.handler.kind \in {"local", "upstream"}},
                               !.next = {e \in updateMux(built.st,
                                                         built.muxUpdates).handlerChain :
                                            e.handler.kind \in {"local", "upstream"}}]
    /\ UNCHANGED <<stopPc, rt, tier>>

\* the first loop of updateMux
UpdateDeregisterStep ==
    /\ StepIs("deregister")
    /\ s' = deregisterExisting(s)
    /\ run' = [run EXCEPT !.pc = @ + 1]
    /\ UNCHANGED <<pending, stopPc, rt, tier>>

\* the second loop of updateMux
UpdateRegisterStep ==
    /\ StepIs("register")
    /\ s' = registerUpdates(s, EmptyMap, run.muxUpdates, 1).st
    /\ run' = [run EXCEPT !.pc = @ + 1]
    /\ UNCHANGED <<pending, stopPc, rt, tier>>

\* updateMux looks for a root entry in dnsMuxMap and calls addHostRootZone
UpdateRestoreStep ==
    /\ StepIs("restore")
    /\ \E runtime \in Runtimes({}, {}, s.hostsDNSHolder, NoResolverErr) :
          s' = Returned(restoreHostRoot(Ranging(s, runtime), run.muxUpdates))
    /\ run' = [run EXCEPT !.pc = @ + 1]
    /\ UNCHANGED <<pending, stopPc, rt, tier>>

\* updateMux assigns dnsMuxMap
UpdateMuxMapStep ==
    /\ StepIs("muxmap")
    /\ s' = [s EXCEPT !.dnsMuxMap =
                         registerUpdates(s, EmptyMap, run.muxUpdates, 1).muxUpdateMap]
    /\ run' = [run EXCEPT !.pc = @ + 1]
    /\ UNCHANGED <<pending, stopPc, rt, tier>>

\* localResolver.Update and the assignment of currentConfig
UpdateConfigStep ==
    /\ StepIs("config")
    /\ s' = setCurrentConfig([s EXCEPT !.localRecords = run.localRecords],
                             pending[1].update)
    /\ run' = [run EXCEPT !.pc = @ + 1]
    /\ UNCHANGED <<pending, stopPc, rt, tier>>

UpdateHostStep ==
    /\ StepIs("host")
    /\ \E runtime \in Runtimes({}, DOMAIN s.extraDomains, {}, NoResolverErr) :
          s' = Returned(applyHostConfig(Ranging(s, runtime)))
    /\ run' = [run EXCEPT !.pc = @ + 1]
    /\ UNCHANGED <<pending, stopPc, rt, tier>>

\* applyConfiguration has returned: the serial and the hash are stored and
\* the mutex is released
UpdateUnlockStep ==
    /\ run.pc = Len(applyConfigurationSteps) + 1
    /\ s' = [s EXCEPT !.updateSerial = pending[1].serial,
                      !.previousConfigHash = Hash(pending[1].update)]
    /\ pending' = <<>>
    /\ run' = Unlocked(run)
    /\ UNCHANGED <<stopPc, rt, tier>>

NextSteps ==
    \/ \E update \in StepsConfigs : UpdateEnter(MaxSerial, update)
    \/ UpdateLockStep
    \/ /\ StepIs("build")
       /\ \E restoreOk \in UpdateRestores(s, pending[1].update) : UpdateBuildStep(restoreOk)
    \/ UpdateDeregisterStep
    \/ UpdateRegisterStep
    \/ UpdateRestoreStep
    \/ UpdateMuxMapStep
    \/ UpdateConfigStep
    \/ UpdateHostStep
    \/ UpdateUnlockStep
    \/ /\ run.mux = "free"
       /\ \E domains \in ExtraDomainLists, priority \in RegisterPriorities :
             RegisterHandlerCall(domains, priority, NoResolverErr)
    \/ /\ run.mux = "free"
       /\ \E domains \in ExtraDomainLists, priority \in RegisterPriorities :
             DeregisterHandlerCall(domains, priority, NoResolverErr)
    \/ /\ run.mux = "free"
       /\ \E h \in ActiveUpstreams(s) : DeactivateCallback(h, NoResolverErr)
    \/ /\ run.mux = "free"
       /\ \E h \in DOMAIN s.removeIndex : ReactivateCallback(h, NoResolverErr)

SpecSteps == Init /\ [][NextSteps]_vars

\* the chain entry that registering a mux update makes
Registered(update) == handlerWrapper(Fqdn(update.domain), update.handler, update.priority)

\* C17: inside an update applyDNSConfig is called only once updateMux has
\* completed: both loops are behind, every handler of the new set is in the
\* chain and dnsMuxMap holds the new set; and the update calls it once.
C17_HostAfterChain ==
    [][ (run.pc # 0 /\ s'.op.applies # s.op.applies)
          => /\ s'.op.applies = 1
             /\ \A name \in {"deregister", "register", "restore", "muxmap"} :
                   \E k \in 1..(run.pc - 1) : applyConfigurationSteps[k] = name
             /\ \A i \in 1..Len(run.muxUpdates) :
                   /\ Registered(run.muxUpdates[i]) \in s.handlerChain
                   /\ ID(run.muxUpdates[i].handler) \in DOMAIN s.dnsMuxMap
             /\ \A id \in DOMAIN s.dnsMuxMap : s.dnsMuxMap[id] \in Range(run.muxUpdates)
      ]_vars

\* an update that replaced the handlers of an earlier one has configured the host
C17_Witness ==
    /\ run.pc = Len(applyConfigurationSteps) + 1
    /\ s.op.applies = 1
    /\ s.hostDNS # <<>>
    /\ s.gen > 1
    /\ Len(run.muxUpdates) > 1
    /\ run.previous # {}
    /\ run.previous # run.next

\* C18: at every moment of an update the local and upstream entries a query
\* finds in the chain are those of before the update or those the update
\* leaves behind.
C18_SwapAtomic ==
    run.pc > 1 =>
        {e \in s.handlerChain : e.handler.kind \in {"local", "upstream"}}
            \in {run.previous, run.next}

(***************************************************************************)
(* SpecUnlocked: the calls of SpecSteps and OnUpdatedHostDNSServer, which  *)
(* takes no mutex: it stores the list (run.host becomes "set"), reads      *)
(* dnsMuxMap (run.host becomes "scanned", run.hasRootHandler what it       *)
(* read), and then returns or registers the root handler.  Another         *)
(* goroutine can run between any two of these.                             *)
(***************************************************************************)
HostSetStep(hostsDnsList) ==
    /\ run.host = "idle"
    /\ s' = [s EXCEPT !.hostsDNSHolder = Range(hostsDnsList)]
    /\ run' = [run EXCEPT !.host = "set"]
    /\ UNCHANGED <<pending, stopPc, rt, tier>>

HostScanStep ==
    /\ run.host = "set"
    /\ run' = [run EXCEPT !.host = "scanned", !.hasRootHandler = hasRootHandler(s)]
    /\ UNCHANGED <<s, pending, stopPc, rt, tier>>

HostRegisterStep ==
    /\ run.host = "scanned"
    /\ \E runtime \in Runtimes({}, {}, s.hostsDNSHolder, NoResolverErr) :
          s' = IF run.hasRootHandler THEN s
               ELSE Returned(addHostRootZone(Ranging(s, runtime)))
    /\ run' = [run EXCEPT !.host = "idle", !.hasRootHandler = FALSE]
    /\ UNCHANGED <<pending, stopPc, rt, tier>>

NextUnlocked ==
    \/ NextSteps
    \/ \E hostsDnsList \in HostsDnsLists : HostSetStep(hostsDnsList)
    \/ HostScanStep
    \/ HostRegisterStep

SpecUnlocked == Init /\ [][NextUnlocked]_vars

\* C12: a call that is between its first and its last access to dnsMuxMap,
\* currentConfig, extraDomains or the chain holds the mutex, and no two
\* calls are there at once.
C12_MutexSerializes ==
    /\ run.pc # 0 => run.mux = "UpdateDNSServer"
    /\ run.host # "idle" => run.mux = "OnUpdatedHostDNSServer"
    /\ ~(run.pc # 0 /\ run.host # "idle")

(***************************************************************************)
(* SpecPlatforms: updates, deactivations and reactivations on a desktop,   *)
(* on an Android server made by NewDefaultServerPermanentUpstream, and     *)
(* where the listener has a port of its own that the host manager cannot   *)
(* be told.                                                                *)
(***************************************************************************)
AndroidEnv == Env(FALSE, FALSE, TRUE, defaultPort, TRUE, <<>>)
CustomPortEnv == Env(FALSE, FALSE, FALSE, defaultPort + 5000, FALSE, <<"10.0.0.1">>)

Platforms == {DesktopEnv, AndroidEnv, CustomPortEnv}

PlatformConfigs ==
    { Config(TRUE, <<>>, <<GroupA1, GroupP2>>),
      Config(TRUE, <<ZoneA>>, <<GroupB1, GroupAB>>) }

InitPlatforms ==
    /\ \E env \in Platforms :
          \/ ~env.android /\ s = newDefaultServer(env)
          \/ /\ env.android
             /\ \E runtime \in Runtimes({}, {}, Range(AndroidHostsDnsList), NoResolverErr) :
                   s = NewDefaultServerPermanentUpstream(
                          env, AndroidHostsDnsList, Config(TRUE, <<>>, <<>>), runtime)
    /\ pending = <<>>
    /\ stopPc = "idle"
    /\ rt = NoRoundTrip
    /\ tier = NoTier
    /\ run = NoRun

NextPlatforms ==
    \/ \E update \in PlatformConfigs : UpdateEnter(MaxSerial, update)
    \/ /\ pending # <<>>
       /\ \E restoreOk \in UpdateRestores(s, pending[1].update) :
             UpdateExit(restoreOk, NoResolverErr)
    \/ \E h \in ActiveUpstreams(s) : DeactivateCallback(h, NoResolverErr)
    \/ \E h \in DOMAIN s.removeIndex : ReactivateCallback(h, NoResolverErr)

SpecPlatforms == InitPlatforms /\ [][NextPlatforms]_vars

(***************************************************************************)
(* SpecDeactivate: the calls of SpecPlatforms and Stop, which can cancel   *)
(* the context before a handler's deactivate or reactivate runs, on a      *)
(* desktop and on Android.                                                 *)
(***************************************************************************)
InitDeactivate ==
    /\ InitPlatforms
    /\ s.runtimePort = defaultPort

NextDeactivate ==
    \/ \E update \in PlatformConfigs : UpdateEnter(MaxSerial, update)
    \/ /\ pending # <<>>
       /\ \E restoreOk \in UpdateRestores(s, pending[1].update) :
             UpdateExit(restoreOk, NoResolverErr)
    \/ \E h \in ActiveUpstreams(s) : DeactivateCallback(h, NoResolverErr)
    \/ \E h \in DOMAIN s.removeIndex : ReactivateCallback(h, NoResolverErr)
    \/ StopCancel
    \/ \E restoreOk \in RestoreOutcomes(~isUsingNoopHostManager(s)) : StopReturn(restoreOk)

SpecDeactivate == InitDeactivate /\ [][NextDeactivate]_vars

EntriesAt(st, zone, priority) ==
    {e \in st.handlerChain : e.domain = zone /\ e.priority = priority}

\* the host manager was handed st.currentConfig, its flags included, by the
\* call that led to st
HostConfigApplied(st) ==
    /\ st.op.applies = 1
    /\ ~isUsingNoopHostManager(st)
          => /\ st.hostDNS # <<>>
             /\ st.hostDNS[1].RouteAll = st.currentConfig.RouteAll
             /\ SubSeq(st.hostDNS[1].Domains, 1, Len(st.currentConfig.Domains))
                   = st.currentConfig.Domains

\* what deactivate of handler h leaves of the group's domains
DomainsDisabled(st, h) ==
    \A k \in 1..Len(st.currentConfig.Domains) :
        LET entry == st.currentConfig.Domains[k]
        IN entry.Domain \in Range(h.Domains)
              => /\ entry.Disabled
                 /\ EntriesAt(st, Fqdn(entry.Domain), h.priority) = {}

\* the handler that stands in for a primary group on Android, built from
\* the servers of the hosts-DNS holder
StandIn(st, e) ==
    /\ st.android
    /\ st.hostsDNSHolder # {}
    /\ e.priority = PriorityDefault
    /\ e.handler.kind = "hostroot"
    /\ Range(e.handler.upstreamServers) = st.hostsDNSHolder

\* C13 as stated: after deactivate of h every entry of currentConfig.Domains
\* for a domain of the group is disabled and the chain has no entry for that
\* domain at h's priority; for a primary group RouteAll is off and the root
\* zone has no entry at that priority; the host config was re-applied.
C13_DeactivateClearsRoot ==
    [][ s'.op.name = "deactivate"
          => LET h == s'.op.handler[1]
             IN /\ DomainsDisabled(s', h)
                /\ h.Primary => /\ ~s'.currentConfig.RouteAll
                                /\ EntriesAt(s', RootZone, h.priority) = {}
                /\ HostConfigApplied(s')
      ]_vars

\* C13, amended: as above, but for the root zone of a primary group: the
\* deactivated handler is not registered there, and an entry at its priority
\* is the stand-in built from the hosts' DNS servers; on Android, when such
\* servers are known, that stand-in is registered at PriorityDefault, and
\* nowhere else is there one.  The host config is re-applied unless Stop has
\* cancelled the context: then the host manager is not called and the host
\* DNS stays as it was.
C13_DeactivateDisables ==
    [][ s'.op.name = "deactivate"
          => LET h == s'.op.handler[1]
             IN /\ DomainsDisabled(s', h)
                /\ h.Primary => /\ ~s'.currentConfig.RouteAll
                                /\ \A e \in EntriesAt(s', RootZone, h.priority) :
                                      e.handler # h /\ StandIn(s', e)
                                /\ (s'.android /\ s'.hostsDNSHolder # {})
                                      => \E e \in EntriesAt(s', RootZone, PriorityDefault) :
                                            StandIn(s', e)
                /\ ~s.ctxErr => HostConfigApplied(s')
                /\ s.ctxErr => /\ s'.op.applies = 0
                               /\ s'.hostDNS = s.hostDNS
      ]_vars

\* a primary group was deactivated on Android and the stand-in took its
\* place; and a group whose domain has two entries was deactivated
C13_Witness ==
    /\ s.op.name = "deactivate"
    /\ s.op.handler[1].Primary
    /\ \E e \in EntriesAt(s, RootZone, s.op.handler[1].priority) : StandIn(s, e)
    /\ s.hostDNS # <<>>
    /\ ~s.hostDNS[1].RouteAll

\* C14: reactivate of h right after deactivate of h leaves the Disabled
\* flags, RouteAll and the registrations of the chain as they were before
\* the deactivate.
C14_DeactivateReactivateRoundTrip ==
    [][ (s'.op.name = "reactivate" /\ s.op.name = "deactivate"
            /\ s'.op.handler = s.op.handler)
          => LET before == s.op.before[1]
             IN /\ s'.currentConfig.Domains = before.currentConfig.Domains
                /\ s'.currentConfig.RouteAll = before.currentConfig.RouteAll
                /\ s'.handlerChain = before.handlerChain
      ]_vars

\* index i recorded for domain passes the guard of reactivate on server st
SlotKept(st, domain, i) ==
    /\ i >= 0
    /\ i < Len(st.currentConfig.Domains)
    /\ st.currentConfig.Domains[i + 1].Domain = domain

\* C15: reactivate of h, whatever updates came since its deactivate, keeps
\* the length and the domains of currentConfig.Domains, clears Disabled at
\* exactly the recorded indices that are in range and still name the
\* recorded domain, registers h for those domains and leaves the chain's
\* entries at h's priority alone for the other domains of the group.  (The
\* root zone of a primary group is registered after the loop, whatever was
\* recorded: that is C5.)
C15_ReactivateGuarded ==
    s.op.name = "reactivate" =>
        LET h == s.op.handler[1]
            before == s.op.before[1]
            recorded == before.removeIndex[h]
            old == before.currentConfig.Domains
            new == s.currentConfig.Domains
        IN /\ Len(new) = Len(old)
           /\ \A k \in 1..Len(old) :
                 /\ new[k].Domain = old[k].Domain
                 /\ new[k].MatchOnly = old[k].MatchOnly
                 /\ new[k].Disabled =
                       IF \E domain \in DOMAIN recorded :
                             recorded[domain] = k - 1 /\ SlotKept(before, domain, k - 1)
                       THEN FALSE
                       ELSE old[k].Disabled
           /\ \A domain \in (DOMAIN recorded) \ {RootZone} :
                 IF SlotKept(before, domain, recorded[domain])
                 THEN handlerWrapper(Fqdn(domain), h, h.priority) \in s.handlerChain
                 ELSE EntriesAt(s, Fqdn(domain), h.priority)
                         = EntriesAt(before, Fqdn(domain), h.priority)

\* an update came between the deactivate and the reactivate of a handler:
\* a recorded index is in range but names another domain now, whose entry
\* another deactivate has disabled, and it has stayed disabled
C15_Witness ==
    /\ s.op.name = "reactivate"
    /\ LET h == s.op.handler[1]
           before == s.op.before[1]
           recorded == before.removeIndex[h]
       IN /\ h.gen < before.gen
          /\ \E domain \in DOMAIN recorded :
                /\ recorded[domain] >= 0
                /\ recorded[domain] < Len(before.currentConfig.Domains)
                /\ ~SlotKept(before, domain, recorded[domain])
                /\ s.currentConfig.Domains[recorded[domain] + 1].Disabled

\* C16: where the listener's port is not the default one and the host
\* manager supports no custom port, the config the host manager was handed
\* last has RouteAll off.
C16_NoRouteAllOnCustomPort ==
    (s.runtimePort # defaultPort /\ ~supportCustomPort(s) /\ s.hostDNS # <<>>)
        => ~s.hostDNS[1].RouteAll

(***************************************************************************)
(* SpecLifecycle: Initialize, updates that enable and disable the service, *)
(* and Stop, on a desktop, with disableSys set, and in netstack mode.  In  *)
(* Initialize and in an update, service.Listen(), the RuntimeIP check or   *)
(* s.initialize() can fail.                                                *)
(***************************************************************************)
DisableSysEnv == Env(TRUE, FALSE, FALSE, defaultPort, TRUE, <<"10.0.0.1">>)
NetstackEnv == Env(FALSE, TRUE, FALSE, defaultPort, TRUE, <<"10.0.0.1">>)

LifecycleEnvs == {DesktopEnv, DisableSysEnv, NetstackEnv}

LifecycleConfigs ==
    { Config(TRUE, <<ZoneA>>, <<GroupB1, GroupP2>>),
      Config(TRUE, <<>>, <<GroupA1>>),
      Config(FALSE, <<>>, <<GroupA1>>),
      Config(FALSE, <<ZoneA, ZoneB>>, <<>>) }

InitLifecycle ==
    /\ \E env \in LifecycleEnvs : s = newDefaultServer(env)
    /\ pending = <<>>
    /\ stopPc = "idle"
    /\ rt = NoRoundTrip
    /\ tier = NoTier
    /\ run = NoRun

NextLifecycle ==
    \/ InitializeCall(ServiceErrs)
    \/ \E serial \in Serials, update \in LifecycleConfigs : UpdateEnter(serial, update)
    \/ /\ pending # <<>>
       /\ \E restoreOk \in UpdateRestores(s, pending[1].update) :
             UpdateExit(restoreOk, ServiceErrs)
    \/ StopCancel
    \/ \E restoreOk \in RestoreOutcomes(~isUsingNoopHostManager(s)) : StopReturn(restoreOk)

SpecLifecycle == InitLifecycle /\ [][NextLifecycle]_vars

\* with disableSys set or in netstack mode the host manager is the noop one,
\* the host DNS is not configured, restoreHostDNS was not called and no
\* shutdown state is written or deleted
NoopWhereSysOff(st) ==
    (st.disableSys \/ st.netstack)
        => /\ isUsingNoopHostManager(st)
           /\ st.hostDNS = <<>>
           /\ ~st.op.restored
           /\ ~st.op.restoreFailed
           /\ st.shutdownState \in {"unregistered", "registered"}

\* C19 as stated: as long as Initialize has not been called the host manager
\* is the noop one; with disableSys set or in netstack mode it is the noop
\* one in every state, the host DNS is never configured, restoreHostDNS is
\* never called and no shutdown state is written or deleted.
C19_NoopBeforeInitialize ==
    /\ ~s.initializeCalled => isUsingNoopHostManager(s)
    /\ NoopWhereSysOff(s)

\* C19, amended: the server is made with the noop host manager, and a real
\* one takes its place only in a call of Initialize or in an UpdateDNSServer
\* with ServiceEnable true (whether Initialize has been called or not), on a
\* server with neither disableSys nor netstack mode, and when neither
\* Listen nor the RuntimeIP check nor initialize failed in that call; with
\* disableSys set or in netstack mode it is the noop one in every state, the
\* host DNS is never configured, restoreHostDNS is never called and no
\* shutdown state is written or deleted.
C19_NoopHostManager ==
    /\ isUsingNoopHostManager(s)
    /\ [][ (isUsingNoopHostManager(s) /\ ~isUsingNoopHostManager(s'))
              => /\ ~s.disableSys /\ ~s.netstack
                 /\ s'.op.errors = {}
                 /\ \/ s'.op.name = "Initialize"
                    \/ /\ s'.op.name = "UpdateDNSServer"
                       /\ pending # <<>>
                       /\ pending[1].update.ServiceEnable
       ]_vars
    /\ []NoopWhereSysOff(s)

\* with disableSys set or in netstack mode, after Initialize and an update
\* that disabled the service, an update that enables it has been applied:
\* the listener runs, and applyDNSConfig went to the noop host manager
C19_Witness ==
    /\ s.disableSys \/ s.netstack
    /\ s.shutdownState = "registered"
    /\ s.op.name = "UpdateDNSServer"
    /\ s.op.ret = "ok"
    /\ s.op.applies = 1
    /\ s.gen > 1
    /\ s.listening

(***************************************************************************)
(* SpecOrder: buildUpstreamHandlerUpdate applied to lists in which groups  *)
(* without a UDP server stand between the others.                          *)
(***************************************************************************)
InitOrder ==
    /\ s = newDefaultServer(DesktopEnv)
    /\ pending = <<>>
    /\ stopPc = "idle"
    /\ rt = NoRoundTrip
    /\ run = NoRun
    /\ \E kind \in {"zone", "root", "mixed"} :
          \E n \in TierSizes(kind) :
              tier = [phase |-> "drawn", kind |-> kind, n |-> n, built |-> <<>>]

SpecOrder == InitOrder /\ [][NextTier]_vars

\* the hosts of the UDP name servers of a group, in their order
UdpHosts(group) ==
    LET udp == SelectSeq(group.NameServers, LAMBDA ns : ns.NSType = UDPNameServerType)
    IN [j \in 1..Len(udp) |-> udp[j].IP]

\* the place (from 0) of group g among the groups S of a zone, in input order
RankIn(S, g) == Cardinality({x \in S : x < g})

\* what the claim says is built for zone: the priority, the servers and the
\* group of every handler
ExpectedOfZone(groups, zone) ==
    LET S == GroupsOfZone(groups, zone)
        basePriority == IF zone = RootZone THEN PriorityDefault ELSE PriorityUpstream
        K == IF zone = RootZone THEN DefaultGap ELSE UpstreamGap
    IN {[priority |-> basePriority - RankIn(S, g),
         hosts |-> UdpHosts(groups[g]),
         Domains |-> groups[g].Domains,
         Primary |-> groups[g].Primary] :
           g \in {x \in S : RankIn(S, x) < K /\ UdpHosts(groups[x]) # <<>>}}

BuiltOfZone(built, zone) ==
    {[priority |-> built[k].priority,
      hosts |-> [j \in 1..Len(built[k].handler.upstreamServers) |->
                    built[k].handler.upstreamServers[j].host],
      Domains |-> built[k].handler.Domains,
      Primary |-> built[k].handler.Primary] : k \in EntriesOfZone(built, zone)}

\* C20: for each zone the i-th contributing group in input order (from 0)
\* gets the priority basePriority - i; of the first K groups those with a
\* UDP server get a handler with that priority and their servers, no other
\* group gets one, and no two handlers of a zone share a priority.
C20_PriorityByInputOrder ==
    tier.phase = "built" =>
        \A zone \in {RootZone, "a.", "b."} :
            /\ BuiltOfZone(tier.built, zone)
                  = ExpectedOfZone(TierGroups(tier.kind, tier.n), zone)
            /\ \A i, j \in EntriesOfZone(tier.built, zone) :
                  tier.built[i].priority = tier.built[j].priority => i = j
            /\ \A i \in EntriesOfZone(tier.built, zone) :
                  tier.built[i].handler.priority = tier.built[i].priority

\* more groups than the tier has room for were offered for zone a.; the
\* second one, which has no UDP server, took a priority and got no handler:
\* the one made for it was stopped
C20_Witness ==
    /\ tier.phase = "built"
    /\ tier.kind = "mixed"
    /\ \E h \in s.stopped : h.domain = "a." /\ h.priority = PriorityUpstream - 1
    /\ Cardinality(GroupsOfZone(TierGroups(tier.kind, tier.n), "a.")) > UpstreamGap
    /\ \A k \in EntriesOfZone(tier.built, "a.") : tier.built[k].priority # PriorityUpstream - 1
    /\ \E k \in EntriesOfZone(tier.built, "a.") : tier.built[k].priority = PriorityUpstream - 2
    /\ \E k \in EntriesOfZone(tier.built, "a.") : tier.built[k].priority = PriorityDefault + 1
    /\ \E k \in EntriesOfZone(tier.built, RootZone) : tier.built[k].priority = PriorityDefault

(***************************************************************************)
(* SpecService: the calls of SpecLifecycle on a server made by             *)
(* NewDefaultServer and on one made by NewDefaultServerPermanentUpstream.  *)
(***************************************************************************)
InitService ==
    /\ \E env \in LifecycleEnvs :
          \/ s = newDefaultServer(env)
          \/ \E runtime \in Runtimes({}, {}, Range(AndroidHostsDnsList), NoResolverErr) :
                s = NewDefaultServerPermanentUpstream(
                       env, AndroidHostsDnsList, Config(TRUE, <<>>, <<>>), runtime)
    /\ pending = <<>>
    /\ stopPc = "idle"
    /\ rt = NoRoundTrip
    /\ tier = NoTier
    /\ run = NoRun

SpecService == InitService /\ [][NextLifecycle]_vars

\* the call that led to st applied an update; enable is its ServiceEnable
AppliedUpdate(st, enable) ==
    /\ st.op.name = "UpdateDNSServer"
    /\ st.op.ret = "ok"
    /\ st.previousConfigHash[1].ServiceEnable = enable

\* C21: an applied update with ServiceEnable false, on a server that is not
\* permanent and has a real host manager, calls restoreHostDNS, leaves the
\* noop host manager and stops the listener; on a permanent server it leaves
\* the host manager and the listener as they were and restores nothing.  An
\* applied update with ServiceEnable true, during which neither Listen nor
\* RuntimeIP nor initialize failed, leaves the listener running and, unless
\* disableSys is set or netstack mode is on, a real host manager.
C21_ServiceFollowsEnable ==
    [][ /\ (AppliedUpdate(s', FALSE) /\ ~s.permanent /\ ~isUsingNoopHostManager(s))
              => /\ s'.op.restored \/ s'.op.restoreFailed
                 /\ isUsingNoopHostManager(s')
                 /\ ~s'.listening
        /\ (AppliedUpdate(s', FALSE) /\ s.permanent)
              => /\ ~s'.op.restored /\ ~s'.op.restoreFailed
                 /\ s'.hostManager = s.hostManager
                 /\ s'.listening = s.listening
        /\ (AppliedUpdate(s', TRUE) /\ s'.op.errors = {})
              => /\ s'.listening
                 /\ ~(s.disableSys \/ s.netstack) => ~isUsingNoopHostManager(s')
      ]_vars

\* on a server that is not permanent an update restored the host DNS and a
\* later one has brought the listener and a real host manager back
C21_Witness ==
    /\ AppliedUpdate(s, TRUE)
    /\ ~s.permanent
    /\ stopPc = "idle"
    /\ s.shutdownState = "deleted"
    /\ s.gen > 1
    /\ s.listening
    /\ ~isUsingNoopHostManager(s)
    /\ s.hostDNS # <<>>

\* on a permanent server with a real host manager an update with
\* ServiceEnable false has been applied
C21_WitnessPermanent ==
    /\ AppliedUpdate(s, FALSE)
    /\ s.permanent
    /\ s.listening
    /\ ~isUsingNoopHostManager(s)

(***************************************************************************)
(* The host config of applyHostConfig, checked under SpecExtra.            *)
(***************************************************************************)
\* the domains of extraDomains that currentConfig.Domains has no entry for
MissingExtraDomains(st) ==
    (DOMAIN st.extraDomains) \ {d.Domain : d \in Range(st.currentConfig.Domains)}

\* config is currentConfig of st followed by one match-only, enabled entry
\* for each missing extra domain
MergedHostConfig(st, config) ==
    LET n == Len(st.currentConfig.Domains)
        extra == SubSeq(config.Domains, n + 1, Len(config.Domains))
    IN /\ Len(config.Domains) >= n
       /\ SubSeq(config.Domains, 1, n) = st.currentConfig.Domains
       /\ \A k \in 1..Len(extra) : extra[k].MatchOnly /\ ~extra[k].Disabled
       /\ {extra[k].Domain : k \in 1..Len(extra)} = MissingExtraDomains(st)
       /\ Len(extra) = Cardinality(MissingExtraDomains(st))
       /\ config.RouteAll = st.currentConfig.RouteAll
       /\ config.ServerIP = st.currentConfig.ServerIP
       /\ config.ServerPort = st.currentConfig.ServerPort

\* C22: the host config a call hands to applyDNSConfig is currentConfig
\* followed by one match-only, enabled entry for each domain of extraDomains
\* that currentConfig.Domains has no entry for, and no domain twice; the
\* calls that only merge (RegisterHandler, DeregisterHandler) leave
\* currentConfig as it was.
C22_ExtraDomainsMerged ==
    [][ /\ (s'.op.applies > 0 /\ ~isUsingNoopHostManager(s'))
              => /\ s'.hostDNS # <<>>
                 /\ MergedHostConfig(s', s'.hostDNS[1])
        /\ s'.op.name \in {"RegisterHandler", "DeregisterHandler"}
              => s'.currentConfig = s.currentConfig
      ]_vars

\* RegisterHandler has handed over a config in which the zone that no
\* update names was appended and the zone the update names was not
C22_Witness ==
    /\ s.op.name = "RegisterHandler"
    /\ s.op.applies = 1
    /\ ~isUsingNoopHostManager(s)
    /\ s.hostDNS # <<>>
    /\ DOMAIN s.extraDomains = {"a.", "c."}
    /\ \E k \in 1..Len(s.currentConfig.Domains) : s.currentConfig.Domains[k].Domain = "a."
    /\ Len(s.hostDNS[1].Domains) = Len(s.currentConfig.Domains) + 1
    /\ s.hostDNS[1].Domains[Len(s.hostDNS[1].Domains)] = DomainConfig("c.", TRUE, FALSE)

(***************************************************************************)
(* SpecFallback: Initialize, updates, externally registered handlers and   *)
(* Stop on a host whose original nameservers include the virtual           *)
(* resolver's own address.                                                 *)
(***************************************************************************)
FallbackConfigs ==
    { Config(TRUE, <<ZoneA>>, <<GroupB1, GroupP2>>),
      Config(FALSE, <<>>, <<GroupA1>>) }

NextFallback ==
    \/ InitializeCall(NoResolverErr)
    \/ \E update \in FallbackConfigs : UpdateEnter(MaxSerial, update)
    \/ /\ pending # <<>>
       /\ \E restoreOk \in UpdateRestores(s, pending[1].update) :
             UpdateExit(restoreOk, NoResolverErr)
    \/ \E domains \in ExtraDomainLists, priority \in RegisterPriorities :
          RegisterHandlerCall(domains, priority, NoResolverErr)
    \/ \E domains \in ExtraDomainLists, priority \in RegisterPriorities :
          DeregisterHandlerCall(domains, priority, NoResolverErr)
    \/ StopCancel
    \/ \E restoreOk \in RestoreOutcomes(~isUsingNoopHostManager(s)) : StopReturn(restoreOk)

SpecFallback == Init /\ [][NextFallback]_vars

\* the original nameservers but the virtual resolver's address, at the default port
OriginalsButSelf(st) ==
    LET kept == SelectSeq(st.originalNameservers, LAMBDA ns : ns # ServerIP)
    IN [k \in 1..Len(kept) |-> formatAddr(kept[k], defaultPort)]

\* C23: after a call that applied the host config on a host manager with
\* original nameservers, the root zone has at PriorityFallback a handler
\* whose servers are the original nameservers but the virtual resolver's
\* own address; after disableDNS restored (or failed to restore) the host
\* DNS, the root zone has no entry at PriorityFallback.
C23_FallbackExcludesSelf ==
    /\ (s.op.applies > 0 /\ Len(getOriginalNameservers(s)) > 0)
          => \E e \in EntriesAt(s, RootZone, PriorityFallback) :
                /\ e.handler.kind = "fallback"
                /\ e.handler.upstreamServers = OriginalsButSelf(s)
                /\ \A k \in 1..Len(e.handler.upstreamServers) :
                      e.handler.upstreamServers[k].host # ServerIP
    /\ (s.op.restored \/ s.op.restoreFailed)
          => EntriesAt(s, RootZone, PriorityFallback) = {}

(***************************************************************************)
(* The root handler of the hosts' DNS servers, checked under               *)
(* SpecPlatforms.                                                          *)
(***************************************************************************)
\* the root-zone entries of the chain that addHostRootZone made
HostRootEntries(st) ==
    {e \in st.handlerChain : e.domain = RootZone /\ e.handler.kind = "hostroot"}

Applied(st) == st.op.name = "UpdateDNSServer" /\ st.op.ret = "ok"

\* C24: an applied update whose handler set has no root-zone entry, after
\* one that had, leaves at PriorityDefault a root-zone handler for the
\* servers of the hosts-DNS holder when the holder is not empty, and adds no
\* such handler when it is empty; an applied update whose handler set has a
\* root-zone entry adds none either.
C24_HostRootRestored ==
    [][ Applied(s') =>
          /\ (~hasRootHandler(s') /\ hasRootHandler(s) /\ s.hostsDNSHolder # {})
                => \E e \in EntriesAt(s', RootZone, PriorityDefault) :
                      /\ e.handler.kind = "hostroot"
                      /\ Range(e.handler.upstreamServers) = s.hostsDNSHolder
                      /\ e \notin s.handlerChain
          /\ (~hasRootHandler(s') /\ hasRootHandler(s) /\ s.hostsDNSHolder = {})
                => HostRootEntries(s') \subseteq HostRootEntries(s)
          /\ hasRootHandler(s') => HostRootEntries(s') \subseteq HostRootEntries(s)
      ]_vars

\* an update without a primary group has replaced one with a primary group
\* and made the root handler of the hosts' DNS servers
C24_Witness ==
    /\ Applied(s)
    /\ s.gen > 1
    /\ ~hasRootHandler(s)
    /\ s.hostsDNSHolder # {}
    /\ \E e \in EntriesAt(s, RootZone, PriorityDefault) :
          /\ e.handler.kind = "hostroot"
          /\ e.handler.gen = s.gen
          /\ Range(e.handler.upstreamServers) = s.hostsDNSHolder

(***************************************************************************)
(* OnUpdatedHostDNSServer next to the other calls, checked under           *)
(* SpecUnlocked.                                                           *)
(***************************************************************************)
\* the root-zone entries of the chain that belong to the handler set of the
\* last applied update
ControlPlaneRootEntries(st) ==
    {e \in st.handlerChain :
        /\ e.domain = RootZone
        /\ \E id \in DOMAIN st.dnsMuxMap : st.dnsMuxMap[id] = e}

\* C25: OnUpdatedHostDNSServer(list) stores list in the hosts-DNS holder;
\* where it registers, dnsMuxMap holds no root-zone entry and the holder is
\* not empty, and what it registers is a root-zone handler at
\* PriorityDefault for the holder's servers; otherwise it leaves the chain
\* as it is; a root-zone handler of the last applied update is never
\* replaced.
C25_HostRootOnlyWithoutRoot ==
    [][ /\ \A hostsDnsList \in HostsDnsLists :
              HostSetStep(hostsDnsList)
                 => /\ s'.hostsDNSHolder = Range(hostsDnsList)
                    /\ s'.handlerChain = s.handlerChain
        /\ HostRegisterStep
              => /\ s'.hostsDNSHolder = s.hostsDNSHolder
                 /\ IF ~hasRootHandler(s) /\ s.hostsDNSHolder # {}
                    THEN /\ \E e \in EntriesAt(s', RootZone, PriorityDefault) :
                               /\ e.handler.kind = "hostroot"
                               /\ Range(e.handler.upstreamServers) = s.hostsDNSHolder
                         /\ {e \in s'.handlerChain : ~(e.domain = RootZone /\ e.priority = PriorityDefault)}
                               = {e \in s.handlerChain : ~(e.domain = RootZone /\ e.priority = PriorityDefault)}
                    ELSE s'.handlerChain = s.handlerChain
                 /\ ControlPlaneRootEntries(s) \subseteq s'.handlerChain
      ]_vars

(***************************************************************************)
(* The handlers the server creates, checked under SpecFallback.            *)
(***************************************************************************)
\* the handlers made by newUpstreamResolver
ServerCreated(h) == h.kind \in {"upstream", "hostroot", "fallback"}

\* the server holds handler h: the chain has an entry for it, or dnsMuxMap
HeldHandlers(st) ==
    {e.handler : e \in st.handlerChain}
        \cup {st.dnsMuxMap[id].handler : id \in DOMAIN st.dnsMuxMap}

\* C26: a handler the server created and that a step takes out of the chain
\* for good (no entry of the chain and none of dnsMuxMap holds it any more)
\* has had Stop called, or the context it was built on is cancelled.
C26_StoppedWhenDropped ==
    [][ \A h \in HeldHandlers(s) :
            (ServerCreated(h) /\ h \notin HeldHandlers(s'))
               => (h \in s'.stopped \/ s'.ctxErr)
      ]_vars

(***************************************************************************)
(* restoreHostDNS failing, checked under SpecFallback.                     *)
(***************************************************************************)
\* C27: a Stop or an update that reached restoreHostDNS leaves the noop
\* host manager and a stopped listener, and Stop an empty extraDomains,
\* whether the restore succeeded or failed; the shutdown checkpoint is
\* deleted when it succeeded and is left as it was when it failed.
C27_FailedRestoreStillCleansUp ==
    [][ (s'.op.restored \/ s'.op.restoreFailed)
          => /\ s'.op.name \in {"Stop", "UpdateDNSServer"}
             /\ isUsingNoopHostManager(s')
             /\ ~s'.listening
             /\ s'.op.name = "Stop" => s'.extraDomains = EmptyMap
             /\ s'.op.restored
                   => s'.shutdownState = "deleted" /\ s'.hostDNS = <<>>
             /\ s'.op.restoreFailed
                   => s'.shutdownState = s.shutdownState /\ s'.hostDNS = s.hostDNS
      ]_vars

\* Stop came while handlers were registered from outside and the host was
\* configured, and restoreHostDNS failed: the checkpoint is still there
C27_Witness ==
    /\ s.op.name = "Stop"
    /\ s.op.restoreFailed
    /\ isUsingNoopHostManager(s)
    /\ ~s.listening
    /\ s.extraDomains = EmptyMap
    /\ \E e \in s.handlerChain : e.handler.kind = "extra"
    /\ s.shutdownState = "set"
    /\ s.hostDNS # <<>>

(***************************************************************************)
(* Deactivation and the handlers of other groups, checked under            *)
(* SpecPlatforms.                                                          *)
(***************************************************************************)
\* two handlers were made for one name-server group of one update
SameGroup(h1, h2) ==
    /\ h1.gen = h2.gen
    /\ h1.Domains = h2.Domains
    /\ h1.Primary = h2.Primary
    /\ h1.upstreamServers = h2.upstreamServers

\* C28: the deactivate callback of a handler leaves every upstream handler
\* of another group registered for its zone at its priority.
C28_DeactivateLeavesOtherGroups ==
    s.op.name = "deactivate" =>
        \A e \in s.op.before[1].handlerChain :
            (e.handler.kind = "upstream" /\ ~SameGroup(e.handler, s.op.handler[1]))
               => e \in s.handlerChain

(***************************************************************************)
(* SpecConcurrent: up to MaxCallers calls of UpdateDNSServer in progress   *)
(* at once.  A call checks the context and the serial (UpdateArrive) and   *)
(* then waits for the mutex; the calls that wait are in pending, and the   *)
(* mutex goes to any of them (UpdateProceed).                              *)
(***************************************************************************)
ConcurrentConfigs ==
    { Config(TRUE, <<>>, <<GroupA1, GroupP2>>),
      Config(TRUE, <<ZoneA>>, <<GroupB1>>) }

\* a call that will wait for the mutex is one of at most MaxApplies that
\* can still create handlers
UpdateArrive(serial, update) ==
    /\ Len(pending) < MaxCallers
    /\ UpdatePreLock(s, serial) # "ok" \/ s.gen + Len(pending) < MaxApplies
    /\ LET started == Begin(s, "UpdateDNSServer")
           pre == UpdatePreLock(started, serial)
       IN IF pre # "ok"
          THEN /\ s' = Observed(s, [started EXCEPT !.op.ret = pre], serial, update)
               /\ pending' = pending
          ELSE /\ s' = s
               /\ pending' = Append(pending, [serial |-> serial, update |-> update])
    /\ UNCHANGED <<stopPc, rt, tier, run>>

UpdateProceed(i, restoreOk) ==
    /\ i \in 1..Len(pending)
    /\ \E runtime \in UpdateRuntimes(s, pending[i].update, NoResolverErr) :
          s' = Returned(Observed(s,
                   UpdateLocked(Ranging(Begin(s, "UpdateDNSServer"), runtime),
                                pending[i].serial, pending[i].update, restoreOk),
                   pending[i].serial, pending[i].update))
    /\ pending' = SubSeq(pending, 1, i - 1) \o SubSeq(pending, i + 1, Len(pending))
    /\ UNCHANGED <<stopPc, rt, tier, run>>

NextConcurrent ==
    \/ \E serial \in 0..MaxSerial, update \in ConcurrentConfigs : UpdateArrive(serial, update)
    \/ \E i \in 1..Len(pending) :
          \E restoreOk \in UpdateRestores(s, pending[i].update) : UpdateProceed(i, restoreOk)

SpecConcurrent == Init /\ [][NextConcurrent]_vars

\* C29: no step lowers updateSerial, and no update is applied whose serial
\* is below that of an update applied before.
C29_SerialMonotonic ==
    [][ /\ s'.updateSerial >= s.updateSerial
        /\ (s'.op.name = "UpdateDNSServer" /\ s'.op.ret = "ok")
              => s'.op.serial >= s.updateSerial
      ]_vars

(***************************************************************************)
(* An update that waits for the mutex while Stop runs, checked under       *)
(* SpecRace.                                                               *)
(***************************************************************************)
\* C30: when a call of UpdateDNSServer has ended after Stop returned (also
\* one that passed its context check before Stop cancelled the context and
\* took the mutex after Stop), the host manager is the noop one and the
\* listener is stopped.
C30_StopFinalUnderRace ==
    (stopPc = "done" /\ s.op.name = "UpdateDNSServer")
        => /\ isUsingNoopHostManager(s)
           /\ ~s.listening

(***************************************************************************)
(* SpecRefs: RegisterHandler and DeregisterHandler in any order, with      *)
(* domain lists that name a zone twice, and Stop.                          *)
(***************************************************************************)
NextRefs ==
    \/ InitializeCall(NoResolverErr)
    \/ \E domains \in DomainLists, priority \in RegisterPriorities :
          RegisterHandlerCall(domains, priority, NoResolverErr)
    \/ \E domains \in DomainLists, priority \in RegisterPriorities :
          DeregisterHandlerCall(domains, priority, NoResolverErr)
    \/ StopCancel
    \/ \E restoreOk \in RestoreOutcomes(~isUsingNoopHostManager(s)) : StopReturn(restoreOk)

SpecRefs == Init /\ [][NextRefs]_vars

\* C31: every count kept in extraDomains is at least 1; DeregisterHandler
\* makes no entry for a zone that had none, and Stop leaves the map empty.
C31_RefCountsPositive ==
    [][ /\ \A zone \in DOMAIN s'.extraDomains : s'.extraDomains[zone] >= 1
        /\ s'.op.name = "DeregisterHandler"
              => DOMAIN s'.extraDomains \subseteq DOMAIN s.extraDomains
        /\ s'.op.name = "Stop" => s'.extraDomains = EmptyMap
      ]_vars

\* Stop cleared the counts of handlers that are still registered, and a
\* DeregisterHandler for one of their zones, which has no count any more,
\* has left the map empty
C31_Witness ==
    /\ s.op.name = "DeregisterHandler"
    /\ stopPc = "done"
    /\ s.extraDomains = EmptyMap
    /\ \E e \in s.handlerChain : e.handler.kind = "extra" /\ e.domain = "b."
    /\ \A e \in s.handlerChain : e.domain # "a."

====
